---------------------------- MODULE Spec2Model ----------------------------
(***************************************************************************)
(* A model of voxkit: the AudioPipeline (src/src/core/audio-pipeline.ts),  *)
(* the ConversationManager (src/src/core/lead-extractor.ts, second half)   *)
(* and the audio path of VoxAgent (src/src/index.ts).                      *)
(*                                                                         *)
(* Every method is one action that models the whole call, the events it    *)
(* emits included.  The event listeners of a component used on its own are *)
(* recorded in a per-call log (apEvents, cmEvents); VoxAgent's listeners    *)
(* are part of the agent's actions.                                        *)
(***************************************************************************)
EXTENDS Integers, Sequences, FiniteSets, TLC

VARIABLES
    \* ---- AudioPipeline (audio-pipeline.ts:16-34)
    config,        \* this.config: sampleRate, bufferDurationMs, enableVAD
    audioBuffer,   \* this.audioBuffer: sequence of chunks
    isStreaming,   \* this.isStreaming
    sampleCount,   \* this.sampleCount (a byte count)
    \* ---- the last call on the pipeline, as its caller observes it
    apCall,        \* [op, arg]: the method called and its chunk argument
    apRet,         \* what the call returned (or that it threw)
    apEvents,      \* the events the call emitted, in order
    \* ---- history of the pipeline
    sinceFlush,    \* the chunks accepted while streaming since the last flushBuffer():
                   \* how many, and their bytes in arrival order
    sinceReset,    \* the same since the last flushBuffer() or start()
    \* ---- ConversationManager (lead-extractor.ts:251-267)
    cmConfig,      \* this.config: maxMessages, silenceTimeoutMs, maxConversationDuration
    state,         \* this.state: id, messages, isActive, startedAt, metadata
    silenceTimer,  \* this.silenceTimer: the handle setTimeout returned, or null
    timeouts,      \* the event loop: the timeouts set by this manager and still pending
    nextId,        \* the conversation ids handed out so far
    now,           \* Date.now(), in seconds
    \* ---- the last step of the manager (a call, the timer's callback or a
    \* ---- clock tick), as its caller observes it
    cmCall,        \* [op, role, content, isFinal]
    cmEvents,      \* the events the call emitted, in order
    \* ---- history of the manager
    cmStarted,     \* start() has been called on this manager
    cmEnded,       \* end() has been called and start() not since
    accepted,      \* the messages addMessage accepted since the last start() or clear()
    retired,       \* the ConversationState objects this.state pointed to before the
                   \* current one, oldest first: the id and the isActive flag of each
    lastActivity,  \* while a timeout is pending: when start() or a change of the
                   \* history last happened (-1 while none is pending)
    cancelled,     \* end() has cancelled, since the last start(), a timeout that was
                   \* due and whose callback had not run yet
    \* ---- VoxAgent (index.ts:86-121) and its collaborators
    agentConfig,   \* this.config: systemPrompt ("" when none is configured)
    isConnected,   \* this.isConnected
    wsStarted,     \* this.wsServer is set and its start() has resolved
    sentAudio,     \* the buffers provider.sendAudio was called with, in order
    agCall,        \* the last call or callback on the agent, and how it ended
    agEvents,      \* the events the agent emitted in it, in order
    delivered,     \* the bytes onAudio delivered while the agent was connected
    reconnectAttempts, \* this.reconnectAttempts
    reconnectTimers,   \* the event loop: the reconnect timeouts handleError set and
                       \* that are still pending, in the order they were set; of each
                       \* its delay in ms and, as history, which attempt since the
                       \* last successful connect it is and whether disconnect()
                       \* has resolved since it was set
    connecting,    \* the connect() calls that await the provider
    agTrace,       \* the calls the last step made on the agent's collaborators, in order
    scheduled,     \* history: the reconnects scheduled since the last successful connect
    plugins,       \* this.plugins: the plugins use() registered, in order
    conversation,  \* this.conversation: the object getState() returned to the
                   \* constructor, to connect() or to the transport's onConnect
    clients,       \* history: the transport's clients that are connected, with the
                   \* conversation started for each and that conversation's messages
    \* ---- LeadExtractor (lead-extractor.ts:17-48)
    leadConfig,    \* this.config: extractOnEveryMessage, customExtractors
    currentLead,   \* this.currentLead: name, email, phone, company, notes ("" when
                   \* unset; the phone as a sequence of characters, <<>> when unset)
    emailLastIndex,\* this.patterns.email.lastIndex: the pattern has the g flag
    leCall,        \* the last call on the extractor: [op, role, content, messages]
    leRet,         \* what it returned
    leEvents,      \* the events it emitted, in order
    \* ---- VoxKitWSServer (part_013:30-40)
    wsClients,     \* this.clients: the ids in the map, each with its client's isAlive
    sockets,       \* the readyState of the socket of each connection accepted so far
    heartbeatInterval, \* whether the heartbeat interval is set
    listening,     \* whether the server accepts connections
    disconnected,  \* history: how often options.onDisconnect was called with each
                   \* client
    wsCall         \* the last call on the server or event it handled: [op, id]

apVars == <<config, audioBuffer, isStreaming, sampleCount,
            apCall, apRet, apEvents, sinceFlush, sinceReset>>

cmVars == <<cmConfig, state, silenceTimer, timeouts, nextId, now,
            cmCall, cmEvents, cmStarted, cmEnded, accepted,
            retired, lastActivity, cancelled>>

rcVars == <<reconnectAttempts, reconnectTimers, connecting, scheduled>>

plVars == <<plugins, conversation, clients>>

agVars == <<agentConfig, isConnected, wsStarted, sentAudio, agCall, agEvents, delivered,
            rcVars, agTrace, plVars>>

leVars == <<leadConfig, currentLead, emailLastIndex, leCall, leRet, leEvents>>

wsVars == <<wsClients, sockets, heartbeatInterval, listening, disconnected, wsCall>>

vars == <<apVars, cmVars, agVars, leVars, wsVars>>

-----------------------------------------------------------------------------
(* Bounds of the model *)

\* the longest chunk a caller passes, in bytes
MaxChunkLen == 2
\* the most chunks the buffer holds before the model stops feeding it
MaxChunks == 3
\* the most chunks, and the most bytes, accepted without an intervening flush
MaxPending == 5
\* the longest chunk passed to applyVAD, in bytes
MaxVadLen == 3
\* the most messages one conversation is offered
MaxAdds == 2
\* the most conversations one manager creates (the constructor's included)
MaxConversations == 3
\* the last second the clock reaches
MaxTime == 2
\* messages in a history given to LeadExtractor.processConversation
MaxHistory == 2
\* reconnect timeouts pending at once
MaxTimers == 2
\* connect() calls awaiting the provider at once
MaxConnecting == 1
\* plugins registered with use()
MaxPlugins == 2
\* clients of the transport server connected at once
MaxClients == 2
\* connections the transport server accepts in all
MaxSessions == 2

-----------------------------------------------------------------------------
(* Values *)

\* byte values: 2 is a small positive low/high byte, 255 makes a sample negative
Bytes == {2, 255}

RECURSIVE SeqsUpTo(_, _)
SeqsUpTo(S, n) ==
    IF n = 0 THEN {<<>>}
    ELSE LET shorter == SeqsUpTo(S, n - 1)
         IN  shorter \cup {Append(s, x) : s \in {t \in shorter : Len(t) = n - 1}, x \in S}

Chunks == SeqsUpTo(Bytes, MaxChunkLen)

\* chunks for applyVAD: silence (0) as well
VadChunks == SeqsUpTo(Bytes \cup {0}, MaxVadLen)

\* configurations the constructor accepts: sampleRate in Hz, bufferDurationMs in ms
SampleRates == {500, 1000}
BufferDurations == {0, 2, 3}
Configs == [sampleRate : SampleRates, bufferDurationMs : BufferDurations,
            enableVAD : BOOLEAN]

NoChunk == <<>>
NoneAccepted == [chunks |-> 0, bytes |-> <<>>]
NullRet == [kind |-> "null", data |-> <<>>, hasSpeech |-> FALSE, confidence |-> "none"]
VoidRet == [kind |-> "void", data |-> <<>>, hasSpeech |-> FALSE, confidence |-> "none"]
BytesRet(b) == [kind |-> "bytes", data |-> b, hasSpeech |-> FALSE, confidence |-> "none"]
ThrowRet == [kind |-> "throws", data |-> <<>>, hasSpeech |-> FALSE, confidence |-> "none"]
VadRet(s, c) == [kind |-> "vad", data |-> <<>>, hasSpeech |-> s, confidence |-> c]

Ev(t, d) == [type |-> t, data |-> d]

\* the events of one type in a log
EventsOf(log, t) == SelectSeq(log, LAMBDA e : e.type = t)

-----------------------------------------------------------------------------
(* AudioPipeline: the methods as functions of the pipeline's fields *)

Pipeline == [audioBuffer |-> audioBuffer, isStreaming |-> isStreaming,
             sampleCount |-> sampleCount]

\* flushBuffer, lines 88-95: the chunks copied one after the other
RECURSIVE Combine(_)
Combine(chunks) ==
    IF chunks = <<>> THEN <<>>
    ELSE Head(chunks) \o Combine(Tail(chunks))

\* calculateBufferDuration() >= bufferDurationMs, in exact arithmetic:
\* (sampleCount / 2) / sampleRate * 1000 >= bufferDurationMs
bytesPerSample == 2
\* (a slip: > for >=)
DurationReached_exceeded(count, cfg) ==
    count * 1000 > cfg.bufferDurationMs * bytesPerSample * cfg.sampleRate

DurationReached(count, cfg) ==
    count * 1000 >= cfg.bufferDurationMs * bytesPerSample * cfg.sampleRate

\* (a slip: lines 97-98 left out, the buffer is not cleared)
AudioPipeline_flushBuffer_keepsBuffer(p) ==
    IF Len(p.audioBuffer) = 0
    THEN [st |-> p, ev |-> <<>>, ret |-> NullRet]
    ELSE LET combined == Combine(p.audioBuffer)
         IN  [st  |-> p,
              ev  |-> <<Ev("buffer", combined)>>,
              ret |-> BytesRet(combined)]

AudioPipeline_flushBuffer(p) ==
    IF Len(p.audioBuffer) = 0
    THEN [st |-> p, ev |-> <<>>, ret |-> NullRet]
    ELSE LET combined == Combine(p.audioBuffer)
         IN  [st  |-> [p EXCEPT !.audioBuffer = <<>>, !.sampleCount = 0],
              ev  |-> <<Ev("buffer", combined)>>,
              ret |-> BytesRet(combined)]

\* (a slip: the isStreaming guard of lines 40-42 left out)
AudioPipeline_processAudioChunk_unguarded(p, cfg, chunk) ==
    LET q == [p EXCEPT !.audioBuffer = Append(@, chunk),
                       !.sampleCount = @ + Len(chunk)]
    IN  IF DurationReached(q.sampleCount, cfg)
        THEN LET f == AudioPipeline_flushBuffer(q)
             IN  [st |-> f.st, ev |-> <<Ev("chunk", chunk)>> \o f.ev, ret |-> VoidRet]
        ELSE [st |-> q, ev |-> <<Ev("chunk", chunk)>>, ret |-> VoidRet]

AudioPipeline_processAudioChunk(p, cfg, chunk) ==
    IF ~p.isStreaming
    THEN [st |-> p, ev |-> <<>>, ret |-> VoidRet]
    ELSE LET q == [p EXCEPT !.audioBuffer = Append(@, chunk),
                            !.sampleCount = @ + Len(chunk)]
         IN  IF DurationReached(q.sampleCount, cfg)
             THEN LET f == AudioPipeline_flushBuffer(q)
                  IN  [st |-> f.st, ev |-> <<Ev("chunk", chunk)>> \o f.ev, ret |-> VoidRet]
             ELSE [st |-> q, ev |-> <<Ev("chunk", chunk)>>, ret |-> VoidRet]

AudioPipeline_start(p) ==
    [st  |-> [p EXCEPT !.isStreaming = TRUE, !.audioBuffer = <<>>, !.sampleCount = 0],
     ev  |-> <<Ev("started", <<>>)>>,
     ret |-> VoidRet]

\* (a slip: 'stopped' emitted before the final flush)
AudioPipeline_stop_flushesLate(p) ==
    LET q == [p EXCEPT !.isStreaming = FALSE]
        f == IF Len(q.audioBuffer) > 0 THEN AudioPipeline_flushBuffer(q)
             ELSE [st |-> q, ev |-> <<>>, ret |-> NullRet]
    IN  [st |-> f.st, ev |-> <<Ev("stopped", <<>>)>> \o f.ev, ret |-> VoidRet]

\* (a slip: stop() without the final flush of lines 73-75)
AudioPipeline_stop_noFlush(p) ==
    [st  |-> [p EXCEPT !.isStreaming = FALSE],
     ev  |-> <<Ev("stopped", <<>>)>>,
     ret |-> VoidRet]

AudioPipeline_stop(p) ==
    LET q == [p EXCEPT !.isStreaming = FALSE]
        f == IF Len(q.audioBuffer) > 0 THEN AudioPipeline_flushBuffer(q)
             ELSE [st |-> q, ev |-> <<>>, ret |-> NullRet]
    IN  [st |-> f.st, ev |-> f.ev \o <<Ev("stopped", <<>>)>>, ret |-> VoidRet]


\* DataView.getInt16(i, true) on the chunk's own ArrayBuffer (the transport
\* builds each chunk with new Uint8Array(Buffer.from(...)), whose buffer has
\* exactly the chunk's length): little-endian, two's complement
getInt16(lo, hi) ==
    LET u == lo + 256 * hi
    IN  IF u >= 32768 THEN u - 65536 ELSE u

\* applyVAD, lines 123-129, from byte offset i - 1: the sum of the squared
\* samples, or the RangeError of getInt16 reading past the end of the buffer
RECURSIVE sampleEnergy(_, _)
sampleEnergy(audioData, i) ==
    IF i > Len(audioData) THEN [threw |-> FALSE, energy |-> 0]
    ELSE IF i + 1 > Len(audioData) THEN [threw |-> TRUE, energy |-> 0]
    ELSE LET sample == getInt16(audioData[i], audioData[i + 1])
             rest   == sampleEnergy(audioData, i + 2)
         IN  [threw |-> rest.threw, energy |-> sample * sample + rest.energy]

\* applyVAD with vadThreshold at its default 0.01 (line 31).  With n samples
\* and energy sum E: normalizedEnergy = sqrt(E / n) / 32768, so
\*   hasSpeech        <=>  E / n >  (0.01 * 32768)^2 = 107374.1824
\*   confidence = 1.0 <=>  E / n >= (0.02 * 32768)^2 = 429496.7296
\* and an empty chunk gives sqrt(0 / 0) = NaN: no speech, confidence NaN.
AudioPipeline_applyVAD(cfg, audioData) ==
    IF ~cfg.enableVAD THEN VadRet(TRUE, "1.0")
    ELSE LET e == sampleEnergy(audioData, 1)
             n == Len(audioData) \div 2
         IN  IF e.threw THEN ThrowRet
             ELSE IF Len(audioData) = 0 THEN VadRet(FALSE, "NaN")
             ELSE VadRet(e.energy > 107374 * n + (1824 * n) \div 10000,
                         IF e.energy > 429496 * n + (7296 * n) \div 10000
                         THEN "1.0" ELSE "below 1.0")

-----------------------------------------------------------------------------
(* ConversationManager: values *)

Roles == {"user", "assistant"}
Contents == {"a", "b"}
Message(role, content) == [role |-> role, content |-> content]
Messages == {Message(r, c) : r \in Roles, c \in Contents}

\* a TranscriptSegment: its text and finality flag
Segments == [text : Contents, isFinal : BOOLEAN]

\* configurations the constructor accepts: silenceTimeoutMs in ms (0 disables
\* the watchdog), maxConversationDuration in seconds
MaxMessagesChoices == {0, 1, 2}
SilenceTimeouts == {0, 1000}
ConversationConfigs ==
    [maxMessages : MaxMessagesChoices, silenceTimeoutMs : SilenceTimeouts,
     maxConversationDuration : {1}, enableMetadata : {TRUE}]

\* metadata maps, as sets of <<key, value>> entries with one entry per key
MetadataUpdates == {{<<"lang", "en">>}, {<<"lang", "fr">>}}

\* a timeout handle: the loop's id of the timeout and the time it is due, in ms;
\* NoTimer is null
NoTimer == [id |-> 0, due |-> 0]
NoMessage == Message("none", "")
CmCall(op, msg, final) ==
    [op |-> op, role |-> msg.role, content |-> msg.content, isFinal |-> final]

-----------------------------------------------------------------------------
(* ConversationManager: the methods as functions of the manager's fields *)

Manager == [state |-> state, silenceTimer |-> silenceTimer, timeouts |-> timeouts]

\* Array.prototype.slice(-n): ToIntegerOrInfinity(-n) is 0 for n = 0, and a
\* start of 0 keeps the whole array; for n > 0 the last min(n, length) entries
sliceLast(arr, n) ==
    IF n = 0 THEN arr
    ELSE SubSeq(arr, IF Len(arr) > n THEN Len(arr) - n + 1 ELSE 1, Len(arr))

createNewConversation(id, t) ==
    [id |-> id, messages |-> <<>>, isActive |-> TRUE, startedAt |-> t, metadata |-> {}]

\* setTimeout(callback, ms) at time t: a handle the loop does not use yet
setTimeout(pending, ms, t) ==
    [id  |-> CHOOSE i \in 1..(Cardinality(pending) + 1) :
                 /\ \A h \in pending : h.id # i
                 /\ \A j \in 1..(i - 1) : \E h \in pending : h.id = j,
     due |-> t * 1000 + ms]

\* clearSilenceTimer: clearTimeout and null
clearSilenceTimer(m) ==
    IF m.silenceTimer # NoTimer
    THEN [m EXCEPT !.timeouts = @ \ {m.silenceTimer}, !.silenceTimer = NoTimer]
    ELSE m

\* (a slip: line 435 left out, the old timeout is not cancelled)
resetSilenceTimer_keepsOld(m, cfg, t) ==
    IF cfg.silenceTimeoutMs > 0
    THEN LET h == setTimeout(m.timeouts, cfg.silenceTimeoutMs, t)
         IN  [m EXCEPT !.silenceTimer = h, !.timeouts = @ \cup {h}]
    ELSE m

resetSilenceTimer(m, cfg, t) ==
    LET c == clearSilenceTimer(m)
    IN  IF cfg.silenceTimeoutMs > 0
        THEN LET h == setTimeout(c.timeouts, cfg.silenceTimeoutMs, t)
             IN  [c EXCEPT !.silenceTimer = h, !.timeouts = @ \cup {h}]
        ELSE c

ConversationManager_start(m, cfg, id, t) ==
    LET fresh == createNewConversation(id, t)
    IN  [m   |-> resetSilenceTimer([m EXCEPT !.state = fresh], cfg, t),
         ev  |-> <<Ev("started", fresh)>>,
         ret |-> fresh]

\* (a slip: line 299 left out, the conversation stays active)
ConversationManager_end_staysActive(m) ==
    [m   |-> clearSilenceTimer(m),
     ev  |-> <<Ev("ended", m.state)>>,
     ret |-> m.state]

\* (a slip: line 300 left out, the watchdog is not cancelled)
ConversationManager_end_keepsTimer(m) ==
    LET ended == [m.state EXCEPT !.isActive = FALSE]
    IN  [m   |-> [m EXCEPT !.state = ended],
         ev  |-> <<Ev("ended", ended)>>,
         ret |-> ended]

ConversationManager_end(m) ==
    LET ended == [m.state EXCEPT !.isActive = FALSE]
    IN  [m   |-> clearSilenceTimer([m EXCEPT !.state = ended]),
         ev  |-> <<Ev("ended", ended)>>,
         ret |-> ended]

\* the message object of lines 315-320, without its timestamp and metadata
ConversationManager_addMessage(m, cfg, t, role, content) ==
    IF ~m.state.isActive
    THEN [m |-> m, ev |-> <<>>]
    ELSE LET message == Message(role, content)
             pushed  == Append(m.state.messages, message)
             kept    == IF Len(pushed) > cfg.maxMessages
                        THEN sliceLast(pushed, cfg.maxMessages)
                        ELSE pushed
         IN  [m  |-> resetSilenceTimer([m EXCEPT !.state.messages = kept], cfg, t),
              ev |-> <<Ev("message", message)>>]

\* (a slip: every segment stored, the isFinal test of line 344 left out)
ConversationManager_addTranscript_storesAll(m, cfg, t, segment) ==
    IF ~m.state.isActive
    THEN [m |-> m, ev |-> <<>>]
    ELSE LET a == ConversationManager_addMessage(m, cfg, t, "user", segment.text)
         IN  [m |-> a.m, ev |-> a.ev \o <<Ev("transcript", segment)>>]

ConversationManager_addTranscript(m, cfg, t, segment) ==
    IF ~m.state.isActive
    THEN [m |-> m, ev |-> <<>>]
    ELSE IF segment.isFinal
         THEN LET a == ConversationManager_addMessage(m, cfg, t, "user", segment.text)
              IN  [m |-> a.m, ev |-> a.ev \o <<Ev("transcript", segment)>>]
         ELSE [m |-> m, ev |-> <<Ev("transcript", segment)>>]

ConversationManager_clear(m) ==
    [m  |-> [m EXCEPT !.state.messages = <<>>, !.state.metadata = {}],
     ev |-> <<Ev("cleared", NoMessage)>>]

\* isValid(): active, and not longer than maxConversationDuration seconds
ConversationManager_isValid(m, cfg, t) ==
    IF ~m.state.isActive THEN FALSE
    ELSE IF t - m.state.startedAt > cfg.maxConversationDuration THEN FALSE
    ELSE TRUE

ConversationManager_getMessages(m) == m.state.messages

\* getLastMessages(count): this.state.messages.slice(-count)
ConversationManager_getLastMessages(m, count) == sliceLast(m.state.messages, count)

\* { ...a, ...b }: the entries of b, and those of a under other keys
spread(a, b) == {e \in a : \A f \in b : f[1] # e[1]} \cup b

ConversationManager_updateMetadata(m, cfg, metadata) ==
    [m  |-> IF cfg.enableMetadata
            THEN [m EXCEPT !.state.metadata = spread(@, metadata)]
            ELSE m,
     ev |-> <<>>]

\* getState(): { ...this.state } is a new object whose messages and metadata
\* fields hold the manager's own array and map; its other fields are copies
ConversationManager_getState(m) ==
    [copy |-> m.state, sharedWithManager |-> {"messages", "metadata"}]

\* what the caller's write to field f of the object getState() returned does
\* to this.state: a push into an array field, an entry put into a map field
\* or a value assigned to another field
writeThroughGetState(m, f, v) ==
    IF f \notin ConversationManager_getState(m).sharedWithManager THEN m
    ELSE IF f = "messages" THEN [m EXCEPT !.state.messages = Append(@, v)]
    ELSE [m EXCEPT !.state.metadata = spread(@, {v})]

-----------------------------------------------------------------------------
(* AudioPipeline: one action per method call *)

\* the pipeline's fields and the caller's view after a call with result r
APCall(op, arg, r) ==
    /\ audioBuffer' = r.st.audioBuffer
    /\ isStreaming' = r.st.isStreaming
    /\ sampleCount' = r.st.sampleCount
    /\ apCall' = [op |-> op, arg |-> arg]
    /\ apRet' = r.ret
    /\ apEvents' = r.ev
    /\ UNCHANGED config

APStart ==
    /\ APCall("start", NoChunk, AudioPipeline_start(Pipeline))
    /\ sinceReset' = NoneAccepted
    /\ UNCHANGED sinceFlush
    /\ UNCHANGED <<cmVars, agVars, leVars, wsVars>>

APStop ==
    /\ APCall("stop", NoChunk, AudioPipeline_stop(Pipeline))
    /\ IF Len(audioBuffer) > 0
       THEN sinceFlush' = NoneAccepted /\ sinceReset' = NoneAccepted
       ELSE UNCHANGED <<sinceFlush, sinceReset>>
    /\ UNCHANGED <<cmVars, agVars, leVars, wsVars>>

APFlushBuffer ==
    /\ APCall("flushBuffer", NoChunk, AudioPipeline_flushBuffer(Pipeline))
    /\ sinceFlush' = NoneAccepted
    /\ sinceReset' = NoneAccepted
    /\ UNCHANGED <<cmVars, agVars, leVars, wsVars>>

\* the history after processAudioChunk(chunk) that emitted the events ev
AcceptedAfter(since, chunk, ev) ==
    IF ~isStreaming THEN since
    ELSE IF EventsOf(ev, "buffer") # <<>> THEN NoneAccepted
    ELSE [chunks |-> since.chunks + 1, bytes |-> since.bytes \o chunk]

APProcessAudioChunk(chunk) ==
    /\ isStreaming => /\ Len(audioBuffer) < MaxChunks
                      /\ sinceFlush.chunks < MaxPending
                      /\ Len(sinceFlush.bytes) + Len(chunk) <= MaxPending
    /\ LET r == AudioPipeline_processAudioChunk(Pipeline, config, chunk)
       IN  /\ APCall("processAudioChunk", chunk, r)
           /\ sinceFlush' = AcceptedAfter(sinceFlush, chunk, r.ev)
           /\ sinceReset' = AcceptedAfter(sinceReset, chunk, r.ev)
    /\ UNCHANGED <<cmVars, agVars, leVars, wsVars>>

APApplyVAD(chunk) ==
    /\ apCall' = [op |-> "applyVAD", arg |-> chunk]
    /\ apRet' = AudioPipeline_applyVAD(config, chunk)
    /\ apEvents' = <<>>
    /\ UNCHANGED <<config, audioBuffer, isStreaming, sampleCount, sinceFlush, sinceReset>>
    /\ UNCHANGED <<cmVars, agVars, leVars, wsVars>>

-----------------------------------------------------------------------------
(* ConversationManager: one action per method call, timer or clock step *)

\* this.state is bound to a new object (line 288): the object it pointed to
\* stays as it is, the silence window starts anew
Rebound ==
    /\ retired' = Append(retired, [id |-> state.id, isActive |-> state.isActive])
    /\ cancelled' = FALSE

\* the time of a start() or of a change of the history, kept while a timeout
\* is pending after the call
Activity(active, pending) ==
    IF pending = {} THEN -1
    ELSE IF active THEN now
    ELSE lastActivity

\* end() has cleared the silence timer: whether the timeout it cancelled was due
Cancelled ==
    /\ cancelled' = (cancelled \/ (silenceTimer \in timeouts /\ now * 1000 >= silenceTimer.due))
    /\ lastActivity' = Activity(FALSE, timeouts')
    /\ UNCHANGED retired

\* the manager's fields and the caller's view after a call with result r
CMCall(call, r) ==
    /\ state' = r.m.state
    /\ silenceTimer' = r.m.silenceTimer
    /\ timeouts' = r.m.timeouts
    /\ cmCall' = call
    /\ cmEvents' = r.ev
    /\ UNCHANGED <<cmConfig, now>>

CMStart ==
    /\ nextId < MaxConversations
    /\ CMCall(CmCall("start", NoMessage, FALSE),
              ConversationManager_start(Manager, cmConfig, nextId, now))
    /\ nextId' = nextId + 1
    /\ cmStarted' = TRUE
    /\ cmEnded' = FALSE
    /\ accepted' = <<>>
    /\ Rebound
    /\ lastActivity' = Activity(TRUE, timeouts')
    /\ UNCHANGED <<apVars, agVars, leVars, wsVars>>

CMEnd ==
    /\ CMCall(CmCall("end", NoMessage, FALSE), ConversationManager_end(Manager))
    /\ cmEnded' = TRUE
    /\ Cancelled
    /\ UNCHANGED <<nextId, cmStarted, accepted>>
    /\ UNCHANGED <<apVars, agVars, leVars, wsVars>>

CMAddMessage(msg) ==
    /\ state.isActive => Len(accepted) < MaxAdds
    /\ CMCall(CmCall("addMessage", msg, FALSE),
              ConversationManager_addMessage(Manager, cmConfig, now, msg.role, msg.content))
    /\ accepted' = IF state.isActive THEN Append(accepted, msg) ELSE accepted
    /\ lastActivity' = Activity(state.isActive, timeouts')
    /\ UNCHANGED <<nextId, cmStarted, cmEnded, retired, cancelled>>
    /\ UNCHANGED <<apVars, agVars, leVars, wsVars>>

CMAddTranscript(segment) ==
    /\ state.isActive => Len(accepted) < MaxAdds
    /\ CMCall(CmCall("addTranscript", Message("user", segment.text), segment.isFinal),
              ConversationManager_addTranscript(Manager, cmConfig, now, segment))
    /\ accepted' = IF state.isActive /\ segment.isFinal
                   THEN Append(accepted, Message("user", segment.text))
                   ELSE accepted
    /\ lastActivity' = Activity(state.isActive /\ segment.isFinal, timeouts')
    /\ UNCHANGED <<nextId, cmStarted, cmEnded, retired, cancelled>>
    /\ UNCHANGED <<apVars, agVars, leVars, wsVars>>

CMClear ==
    /\ CMCall(CmCall("clear", NoMessage, FALSE), ConversationManager_clear(Manager))
    /\ accepted' = <<>>
    /\ lastActivity' = Activity(TRUE, timeouts')
    /\ UNCHANGED <<nextId, cmStarted, cmEnded, retired, cancelled>>
    /\ UNCHANGED <<apVars, agVars, leVars, wsVars>>

CMUpdateMetadata(metadata) ==
    /\ CMCall(CmCall("updateMetadata", NoMessage, FALSE),
              ConversationManager_updateMetadata(Manager, cmConfig, metadata))
    /\ UNCHANGED <<nextId, cmStarted, cmEnded, accepted, retired, lastActivity, cancelled>>
    /\ UNCHANGED <<apVars, agVars, leVars, wsVars>>

\* a caller changes a value an accessor returned; r is the manager after it
CallerMutates(what, r) ==
    /\ CMCall(CmCall(what, NoMessage, FALSE), [m |-> r, ev |-> <<>>])
    /\ UNCHANGED <<nextId, cmStarted, cmEnded, accepted, retired, lastActivity, cancelled>>

\* manager.getState().messages.push(msg)
CallerPushesIntoState(msg) ==
    /\ Len(state.messages) < MaxAdds
    /\ CallerMutates("getState().messages.push", writeThroughGetState(Manager, "messages", msg))
    /\ UNCHANGED <<apVars, agVars, leVars, wsVars>>

\* manager.getState().metadata[key] = value
CallerWritesStateMetadata(entry) ==
    /\ CallerMutates("getState().metadata[]=", writeThroughGetState(Manager, "metadata", entry))
    /\ UNCHANGED <<apVars, agVars, leVars, wsVars>>

\* manager.getState().isActive = flag
CallerSetsStateActive(flag) ==
    /\ CallerMutates("getState().isActive=", writeThroughGetState(Manager, "isActive", flag))
    /\ UNCHANGED <<apVars, agVars, leVars, wsVars>>

\* manager.getMessages().push(msg): [...this.state.messages] is a new array
CallerPushesIntoMessages(msg) ==
    /\ CallerMutates("getMessages().push", Manager)
    /\ UNCHANGED <<apVars, agVars, leVars, wsVars>>

\* manager.getLastMessages(count).push(msg): slice() makes a new array
CallerPushesIntoLastMessages(count, msg) ==
    /\ CallerMutates("getLastMessages().push", Manager)
    /\ UNCHANGED <<apVars, agVars, leVars, wsVars>>

\* the callback of lines 438-441, run by the event loop once the timeout is due
SilenceTimerFires ==
    /\ \E h \in timeouts :
          /\ now * 1000 >= h.due
          /\ timeouts' = timeouts \ {h}
    /\ cmCall' = CmCall("silenceTimer", NoMessage, FALSE)
    /\ cmEvents' = <<Ev("silenceTimeout", state)>>
    /\ lastActivity' = Activity(FALSE, timeouts')
    /\ UNCHANGED <<cmConfig, silenceTimer, nextId, now, cmStarted, accepted, retired>>

\* the same on a manager used on its own: no listener is registered
CMSilenceTimeout ==
    /\ SilenceTimerFires
    /\ UNCHANGED <<state, cmEnded, cancelled>>
    /\ UNCHANGED <<apVars, agVars, leVars, wsVars>>

\* a second passes with no call on the manager
CMTick ==
    /\ now < MaxTime
    /\ now' = now + 1
    /\ cmCall' = CmCall("tick", NoMessage, FALSE)
    /\ cmEvents' = <<>>
    /\ UNCHANGED <<cmConfig, state, silenceTimer, timeouts, nextId, cmStarted, cmEnded, accepted>>
    /\ UNCHANGED <<retired, lastActivity, cancelled>>
    /\ UNCHANGED <<apVars, agVars, leVars, wsVars>>

-----------------------------------------------------------------------------
(* LeadExtractor: the methods as functions of the extractor's fields *)

\* message texts, and the lead's fields; a phone number is kept as the
\* sequence of its characters, the other fields as strings ("" for undefined)
Fields == {"name", "email", "phone", "company", "notes"}
BaseTexts == {"hello", "my name is Ann", "ann@x.io", "bob@y.org", "i work at Acme",
              "order #7", "it is urgent"}
PhoneTexts == {"4155551234", "415-555-1234", "415.555.1234", "(415) 555 1234",
               "call 415-555-1234", "1 415 555 1234", "14155551234",
               "+1 (415) 555-1234", "+14155551234", "+4155551234"}
LeadRoles == {"user", "assistant", "system"}
LeadMessages ==
    {Message(r, t) : r \in LeadRoles, t \in BaseTexts}
        \cup {Message("user", t) : t \in PhoneTexts}

\* the histories handed to processConversation: at most MaxHistory messages
HistoryMessages ==
    {Message("user", "my name is Ann"), Message("user", "ann@x.io"),
     Message("assistant", "bob@y.org")}
Histories == SeqsUpTo(HistoryMessages, MaxHistory)

\* customExtractors (line 14): hooks from a text to a partial lead. "order" is
\* the hook of the repository's test (part_005:156-163), which returns {} for
\* a text without an order number; "priority" always returns a notes key,
\* (text) => ({ notes: /urgent/.test(text) ? 'urgent' : undefined })
Hooks == {"order", "priority"}
LeadConfigs ==
    [extractOnEveryMessage : BOOLEAN,
     customExtractors : {<<>>} \cup {<<hook>> : hook \in Hooks}
                            \cup {<<"order", "priority">>}]

\* the length of an address in characters
StrLen(str) ==
    CASE str = "ann@x.io" -> 8
      [] str = "bob@y.org" -> 9
      [] OTHER -> 0

DigitChars == {"0", "1", "2", "3", "4", "5", "6", "7", "8", "9"}
Ten == <<"4", "1", "5", "5", "5", "5", "1", "2", "3", "4">>

\* text.match(this.patterns.email), line 24: the addresses in the text
matchEmail(text) == IF text \in {"ann@x.io", "bob@y.org"} THEN <<text>> ELSE <<>>

\* text.match(this.patterns.phone), line 25: the numbers in the text, each
\* with the characters the pattern takes in (an optional "+", an optional
\* "1", separators, parentheses; a blank before the number belongs to the match)
matchPhone(text) ==
    LET a == SubSeq(Ten, 1, 3)
        b == SubSeq(Ten, 4, 6)
        c == SubSeq(Ten, 7, 10)
    IN  CASE text = "4155551234"        -> <<Ten>>
          [] text = "415-555-1234"      -> <<a \o <<"-">> \o b \o <<"-">> \o c>>
          [] text = "415.555.1234"      -> <<a \o <<".">> \o b \o <<".">> \o c>>
          [] text = "(415) 555 1234"    -> <<<<"(">> \o a \o <<")", " ">> \o b \o <<" ">> \o c>>
          [] text = "call 415-555-1234" -> <<<<" ">> \o a \o <<"-">> \o b \o <<"-">> \o c>>
          [] text = "1 415 555 1234"    -> <<<<"1", " ">> \o a \o <<" ">> \o b \o <<" ">> \o c>>
          [] text = "14155551234"       -> <<<<"1">> \o Ten>>
          [] text = "+1 (415) 555-1234" ->
                 <<<<"+", "1", " ", "(">> \o a \o <<")", " ">> \o b \o <<"-">> \o c>>
          [] text = "+14155551234"      -> <<<<"+", "1">> \o Ten>>
          [] text = "+4155551234"       -> <<<<"+">> \o Ten>>
          [] OTHER -> <<>>

\* extractName, lines 152-167: the name after "my name is", "" for undefined
extractName(text) == IF text = "my name is Ann" THEN "Ann" ELSE ""

\* extractCompany, lines 169-177: the company after "work at", "" for undefined
extractCompany(text) == IF text = "i work at Acme" THEN "Acme" ELSE ""

\* phone.replace(/[^\d+]/g, ''), line 181, and phone.replace(/\D/g, ''), line 225
keepDigitsAndPlus(phone) == SelectSeq(phone, LAMBDA ch : ch \in DigitChars \cup {"+"})
keepDigits(phone) == SelectSeq(phone, LAMBDA ch : ch \in DigitChars)

\* (a slip: ten digits are returned without the country code)
normalizePhone_bare(phone) ==
    LET digits == keepDigitsAndPlus(phone)
    IN  IF Len(digits) = 11 /\ digits[1] = "1" THEN <<"+">> \o digits
        ELSE digits

\* normalizePhone, lines 179-194
normalizePhone(phone) ==
    LET digits == keepDigitsAndPlus(phone)
    IN  IF Len(digits) = 11 /\ digits[1] = "1" THEN <<"+">> \o digits
        ELSE IF Len(digits) = 10 THEN <<"+", "1">> \o digits
        ELSE digits

\* this.patterns.email.test(email) with the pattern's lastIndex at index: a g
\* pattern searches from lastIndex, and an address matches only as a whole
regexTest(index, email) ==
    LET found == index = 0 /\ matchEmail(email) # <<>>
    IN  [result |-> found, lastIndex |-> IF found THEN StrLen(email) ELSE 0]

\* validatePhone, lines 224-227: 10 to 15 digits
validatePhone(phone) ==
    LET digits == keepDigits(phone)
    IN  Len(digits) >= 10 /\ Len(digits) <= 15

Extractor == [currentLead |-> currentLead, emailLastIndex |-> emailLastIndex]

EmptyLead == [name |-> "", email |-> "", phone |-> <<>>, company |-> "", notes |-> ""]

\* the truthiness of a field's value
populated(lead, f) == IF f = "phone" THEN lead[f] # <<>> ELSE lead[f] # ""

\* buildLeadInfo, lines 196-218: the snapshot, with confidences in hundredths
\* (0 for none), and the pattern's lastIndex after validateEmail
buildLeadInfo(le) ==
    LET t == IF le.currentLead.email # ""
             THEN regexTest(le.emailLastIndex, le.currentLead.email)
             ELSE [result |-> FALSE, lastIndex |-> le.emailLastIndex]
    IN  [lead |-> [name |-> le.currentLead.name,
                   email |-> le.currentLead.email,
                   phone |-> le.currentLead.phone,
                   company |-> le.currentLead.company,
                   notes |-> le.currentLead.notes,
                   confidence |->
                     [name  |-> IF le.currentLead.name # "" THEN 85 ELSE 0,
                      email |-> IF le.currentLead.email = "" THEN 0
                                ELSE IF t.result THEN 100 ELSE 50,
                      phone |-> IF le.currentLead.phone = <<>> THEN 0
                                ELSE IF validatePhone(le.currentLead.phone) THEN 100
                                ELSE 50]],
         le   |-> [le EXCEPT !.emailLastIndex = t.lastIndex]]

\* (a slip: the bar of hasCompleteLead, lines 147-150, used for the emission)
hasMinimumInfo_complete(lead) ==
    (IF lead.name # "" THEN 1 ELSE 0) + (IF lead.email # "" THEN 1 ELSE 0)
        + (IF lead.phone # <<>> THEN 1 ELSE 0) >= 3

\* hasMinimumInfo, lines 229-232
hasMinimumInfo(lead) ==
    (IF lead.name # "" THEN 1 ELSE 0) + (IF lead.email # "" THEN 1 ELSE 0)
        + (IF lead.phone # <<>> THEN 1 ELSE 0) >= 1

NullLead == [kind |-> "null", lead |-> buildLeadInfo([currentLead |-> EmptyLead,
                                                     emailLastIndex |-> 0]).lead]
LeadRet(lead) == [kind |-> "lead", lead |-> lead]

\* a partial lead: the keys the object has, and their values
Partial(keys, vals) == [keys |-> keys, vals |-> vals]

\* the updates of the built-in extractors, lines 59-87: a key is set only for
\* a value that was found
builtinUpdates(text) ==
    LET emails == matchEmail(text)
        phones == matchPhone(text)
        vals   == [name    |-> extractName(text),
                   email   |-> IF Len(emails) > 0 THEN emails[1] ELSE "",
                   phone   |-> IF Len(phones) > 0 THEN normalizePhone(phones[1]) ELSE <<>>,
                   company |-> extractCompany(text),
                   notes   |-> ""]
    IN  Partial({f \in Fields : populated(vals, f)}, vals)

\* a custom extractor applied to a text
customExtractor(hook, text) ==
    CASE hook = "order" ->
           IF text = "order #7"
           THEN Partial({"notes"}, [EmptyLead EXCEPT !.notes = "Order: 7"])
           ELSE Partial({}, EmptyLead)
      [] hook = "priority" ->
           Partial({"notes"},
                   [EmptyLead EXCEPT !.notes = IF text = "it is urgent" THEN "urgent" ELSE ""])

\* Object.assign(target, source), line 92: every own key of source is copied,
\* whatever its value
assign(target, source) ==
    Partial(target.keys \cup source.keys,
            [f \in Fields |-> IF f \in source.keys THEN source.vals[f] ELSE target.vals[f]])

\* the loop of lines 90-93 over the extractors from index i on
RECURSIVE applyCustomExtractors(_, _, _, _)
applyCustomExtractors(updates, extractors, text, i) ==
    IF i > Len(extractors) THEN updates
    ELSE applyCustomExtractors(assign(updates, customExtractor(extractors[i], text)),
                               extractors, text, i + 1)

\* { ...this.currentLead, ...updates }, line 96: every key of updates wins
mergeLead(lead, updates) ==
    [f \in Fields |-> IF f \in updates.keys THEN updates.vals[f] ELSE lead[f]]

\* processMessage for a user message, lines 58-106; String.prototype.match
\* with a g pattern leaves the pattern's lastIndex at 0
processUserMessage(le, cfg, message) ==
    LET text    == message.content
        updates == applyCustomExtractors(builtinUpdates(text), cfg.customExtractors, text, 1)
        b       == buildLeadInfo([currentLead    |-> mergeLead(le.currentLead, updates),
                                  emailLastIndex |-> 0])
    IN  IF hasMinimumInfo(b.lead) /\ cfg.extractOnEveryMessage
        THEN [le |-> b.le, ev |-> <<Ev("lead", b.lead)>>, ret |-> LeadRet(b.lead)]
        ELSE [le |-> b.le, ev |-> <<>>, ret |-> NullLead]

\* (a slip: the role test of lines 54-56 left out)
LeadExtractor_processMessage_anyRole(le, cfg, message) ==
    processUserMessage(le, cfg, message)

\* processMessage, lines 53-107
LeadExtractor_processMessage(le, cfg, message) ==
    IF message.role # "user"
    THEN [le |-> le, ev |-> <<>>, ret |-> NullLead]
    ELSE processUserMessage(le, cfg, message)

\* (a slip: reset() keeps the accumulated fields)
LeadExtractor_reset_keepsFields(le) == le

\* reset(), lines 139-142
LeadExtractor_reset(le) == [le EXCEPT !.currentLead = EmptyLead]

LeadExtractor_getCurrentLead(le) ==
    LET b == buildLeadInfo(le)
    IN  [le |-> b.le, ev |-> <<>>, ret |-> LeadRet(b.lead)]

\* the loop of lines 115-117 over the messages from index i on
RECURSIVE processEach(_, _, _, _, _)
processEach(le, cfg, messages, i, ev) ==
    IF i > Len(messages) THEN [le |-> le, ev |-> ev]
    ELSE LET r == LeadExtractor_processMessage(le, cfg, messages[i])
         IN  processEach(r.le, cfg, messages, i + 1, ev \o r.ev)

\* processConversation, lines 112-127
LeadExtractor_processConversation(le, cfg, messages) ==
    LET p == processEach(LeadExtractor_reset(le), cfg, messages, 1, <<>>)
        b == buildLeadInfo(p.le)
    IN  IF hasMinimumInfo(b.lead)
        THEN [le |-> b.le, ev |-> p.ev \o <<Ev("lead", b.lead)>>, ret |-> LeadRet(b.lead)]
        ELSE [le |-> b.le, ev |-> p.ev, ret |-> NullLead]

\* a call of the extractor: the method, its message or its history
LeCall(op, message) ==
    [op |-> op, role |-> message.role, content |-> message.content, messages |-> <<>>]
LeConversationCall(messages) ==
    [op |-> "processConversation", role |-> "", content |-> "", messages |-> messages]

-----------------------------------------------------------------------------
(* LeadExtractor: one action per method call *)

\* the extractor's fields and the caller's view after a call with result r
LECall(call, r) ==
    /\ currentLead' = r.le.currentLead
    /\ emailLastIndex' = r.le.emailLastIndex
    /\ leCall' = call
    /\ leRet' = r.ret
    /\ leEvents' = r.ev
    /\ UNCHANGED <<leadConfig, wsVars>>

LEProcessMessage(message) ==
    /\ LECall(LeCall("processMessage", message),
              LeadExtractor_processMessage(Extractor, leadConfig, message))
    /\ UNCHANGED <<apVars, cmVars, agVars>>

LEGetCurrentLead ==
    /\ LECall(LeCall("getCurrentLead", NoMessage), LeadExtractor_getCurrentLead(Extractor))
    /\ UNCHANGED <<apVars, cmVars, agVars>>

LEReset ==
    /\ LECall(LeCall("reset", NoMessage),
              [le |-> LeadExtractor_reset(Extractor), ev |-> <<>>, ret |-> NullLead])
    /\ UNCHANGED <<apVars, cmVars, agVars>>

LEProcessConversation(messages) ==
    /\ LECall(LeConversationCall(messages),
              LeadExtractor_processConversation(Extractor, leadConfig, messages))
    /\ UNCHANGED <<apVars, cmVars, agVars>>

-----------------------------------------------------------------------------
(* VoxAgent: the audio path, with listen(), disconnect() and stop() *)

\* configurations: a system prompt, or none
AgentConfigs == [systemPrompt : {"", "a"}]

AgCall(op, outcome) == [op |-> op, outcome |-> outcome]

\* a call on the provider, the manager, the extractor or the transport
\* server, an event the agent emits ("emit", with the event's name) or a
\* callback of the configuration, with its text argument ("" when it has none)
Call(callee, arg) == [call |-> callee, arg |-> arg, plugin |-> 0]

\* a call of a hook of this.plugins[i]
Hook(i, hook, arg) == [call |-> hook, arg |-> arg, plugin |-> i]

\* the 'buffer' listener of setupEventHandlers (lines 166-172), run on each
\* 'buffer' event of ev in order: the provider's sendAudio calls after it
RECURSIVE onBuffer(_, _, _)
onBuffer(ev, connected, sent) ==
    IF ev = <<>> THEN sent
    ELSE onBuffer(Tail(ev), connected,
                  IF Head(ev).type = "buffer" /\ connected
                  THEN Append(sent, Head(ev).data)
                  ELSE sent)

\* the plugins of the repository (part_008:301-339, plugins/lead-webhook.ts,
\* plugins/metrics.ts) by name, and the optional hooks each of them defines
PluginKinds == {"transcript-logger", "lead-webhook", "metrics"}
defines(kind, hook) ==
    CASE kind = "transcript-logger" -> hook \in {"onMessage", "onTranscript"}
      [] kind = "lead-webhook"      -> hook \in {"onLead"}
      [] kind = "metrics"           -> hook \in {"onMessage", "onLead"}

\* for (const plugin of this.plugins) { plugin.hook?.(arg) }, from plugin i on
RECURSIVE notifyPlugins(_, _, _, _)
notifyPlugins(pl, hook, arg, i) ==
    IF i > Len(pl) THEN <<>>
    ELSE (IF defines(pl[i], hook) THEN <<Hook(i, hook, arg)>> ELSE <<>>)
             \o notifyPlugins(pl, hook, arg, i + 1)

\* the extractor's 'lead' listener, lines 175-183: the agent emits 'lead',
\* calls the configuration's onLead and then each plugin's onLead
leadListener(pl) ==
    <<Call("emit", "lead"), Call("config.onLead", "")>> \o notifyPlugins(pl, "onLead", "", 1)

\* the listener run for each 'lead' event the extractor emitted
RECURSIVE onExtractorLeads(_, _)
onExtractorLeads(pl, ev) ==
    IF ev = <<>> THEN <<>> ELSE leadListener(pl) \o onExtractorLeads(pl, Tail(ev))

\* (a slip: the plugins are told inside the test of line 146, of user
\* messages only)
messageListener_usersOnly(pl, message, r) ==
    IF message.role = "user"
    THEN <<Call("leadExtractor.processMessage", message.content)>>
             \o onExtractorLeads(pl, r.ev)
             \o (IF r.ret.kind = "lead"
                 THEN <<Call("emit", "lead"), Call("config.onLead", "")>> ELSE <<>>)
             \o notifyPlugins(pl, "onMessage", message.content, 1)
    ELSE <<>>

\* the manager's 'message' listener, lines 145-158, for a message and the
\* extraction r of it (enableLeadExtraction is true by default): a user
\* message goes to the extractor, whose 'lead' event runs the listener
\* above inside processMessage, and a lead returned is emitted and passed to
\* the configuration's onLead; then each plugin's onMessage
messageListener(pl, message, r) ==
    (IF message.role = "user"
     THEN <<Call("leadExtractor.processMessage", message.content)>>
              \o onExtractorLeads(pl, r.ev)
              \o (IF r.ret.kind = "lead"
                  THEN <<Call("emit", "lead"), Call("config.onLead", "")>> ELSE <<>>)
     ELSE <<>>)
        \o notifyPlugins(pl, "onMessage", message.content, 1)

\* this.conversation = this.conversationManager.getState(): the fields of
\* the copy the model follows, and whether its messages field is the
\* manager's own array
Snapshot(m) ==
    LET g == ConversationManager_getState(m)
    IN  [id |-> g.copy.id, isActive |-> g.copy.isActive, messages |-> g.copy.messages,
         shared |-> "messages" \in g.sharedWithManager]

\* what the object conv shows after the manager's addMessage(role, content)
\* on m: the push of line 322 goes into the array conv shares with the
\* manager; the trim of lines 326-328 gives the manager a new array
seenThrough(conv, m, cfg, role, content) ==
    IF conv.shared /\ conv.id = m.state.id /\ m.state.isActive
    THEN LET pushed == Append(m.state.messages, Message(role, content))
         IN  [conv EXCEPT !.messages = pushed,
                          !.shared = ~(Len(pushed) > cfg.maxMessages)]
    ELSE conv

\* the messages of each client's own conversation, once the manager's
\* current conversation is s
ownMessages(cl, s) ==
    {[c EXCEPT !.messages = IF c.conversation = s.id THEN s.messages ELSE @] : c \in cl}

\* connect(), lines 200-206, once the provider has connected: what it does to
\* the conversation manager and to this.conversation
VoxAgent_connect(m, cfg, acfg, id, t) ==
    LET s == ConversationManager_start(m, cfg, id, t)
        a == IF acfg.systemPrompt # ""
             THEN ConversationManager_addMessage(s.m, cfg, t, "system", acfg.systemPrompt)
             ELSE [m |-> s.m, ev |-> <<>>]
    IN  [m |-> a.m, ev |-> s.ev \o a.ev,
         conversation |-> IF acfg.systemPrompt # ""
                          THEN seenThrough(Snapshot(s.m), s.m, cfg, "system", acfg.systemPrompt)
                          ELSE Snapshot(s.m)]

\* the calls of connect() once the provider has connected (lines 200-209),
\* the 'message' listener's included
connectTrace(acfg, pl) ==
    <<Call("conversationManager.start", "")>>
        \o (IF acfg.systemPrompt # ""
            THEN <<Call("conversationManager.addMessage", acfg.systemPrompt)>>
                     \o messageListener(pl, Message("system", acfg.systemPrompt),
                                        [ev |-> <<>>, ret |-> NullLead])
            ELSE <<>>)
        \o <<Call("config.onConnect", "true"), Call("emit", "connect")>>

\* (a slip: the provider is disconnected before the final extraction)
disconnectTrace_extractsLast(pl, r) ==
    <<Call("provider.disconnect", ""), Call("leadExtractor.processConversation", "")>>
        \o onExtractorLeads(pl, r.ev)
        \o (IF r.ret.kind = "lead"
            THEN <<Call("emit", "lead"), Call("config.onLead", "")>> ELSE <<>>)
        \o <<Call("conversationManager.end", ""),
             Call("config.onConnect", "false"), Call("emit", "disconnect")>>

\* the calls of disconnect() when the provider's disconnect() fails (lines
\* 223-232 and 240-242): the manager's end() is not reached
rejectedDisconnectTrace(pl, r) ==
    <<Call("leadExtractor.processConversation", "")>>
        \o onExtractorLeads(pl, r.ev)
        \o (IF r.ret.kind = "lead"
            THEN <<Call("emit", "lead"), Call("config.onLead", "")>> ELSE <<>>)
        \o <<Call("provider.disconnect", ""),
             Call("emit", "error"), Call("config.onError", "disconnect")>>

\* the calls of disconnect() when the provider disconnects (lines 223-237),
\* for the final extraction r: processConversation with the extractor's
\* 'lead' listener run inside it, the lead returned, the provider, the manager
disconnectTrace(pl, r) ==
    <<Call("leadExtractor.processConversation", "")>>
        \o onExtractorLeads(pl, r.ev)
        \o (IF r.ret.kind = "lead"
            THEN <<Call("emit", "lead"), Call("config.onLead", "")>> ELSE <<>>)
        \o <<Call("provider.disconnect", ""), Call("conversationManager.end", ""),
             Call("config.onConnect", "false"), Call("emit", "disconnect")>>

\* listen() resolves: connect() succeeds (lines 192-209), then wsServer.start()
AgentListen ==
    /\ ~wsStarted
    /\ nextId < MaxConversations
    /\ LET r == VoxAgent_connect(Manager, cmConfig, agentConfig, nextId, now)
       IN  /\ CMCall(CmCall("start", NoMessage, FALSE), r)
           /\ accepted' = IF agentConfig.systemPrompt # ""
                          THEN <<Message("system", agentConfig.systemPrompt)>>
                          ELSE <<>>
           /\ conversation' = r.conversation
    /\ nextId' = nextId + 1
    /\ cmStarted' = TRUE
    /\ cmEnded' = FALSE
    /\ Rebound
    /\ lastActivity' = Activity(TRUE, timeouts')
    /\ isConnected' = TRUE
    /\ wsStarted' = TRUE
    /\ agCall' = AgCall("listen", "resolved")
    /\ agEvents' = <<Ev("connect", "true")>>
    /\ agTrace' = <<Call("provider.initialize", ""), Call("provider.connect", "")>>
                      \o connectTrace(agentConfig, plugins)
                      \o <<Call("wsServer.start", "")>>
    /\ reconnectAttempts' = 0
    /\ scheduled' = 0
    /\ UNCHANGED <<agentConfig, sentAudio, delivered, reconnectTimers, connecting>>
    /\ UNCHANGED <<plugins, clients>>
    /\ UNCHANGED <<apVars, leVars, wsVars>>

\* listen() rejects: the provider's initialize() or connect() fails; handleError
\* (lines 362-378) finds isConnected false and schedules nothing
AgentListenFails ==
    /\ ~wsStarted
    /\ ~isConnected
    /\ agCall' = AgCall("listen", "rejected")
    /\ agEvents' = <<Ev("error", "connect")>>
    /\ agTrace' = <<Call("provider.initialize", "")>>
    /\ UNCHANGED <<agentConfig, isConnected, wsStarted, sentAudio, delivered, rcVars, plVars>>
    /\ UNCHANGED <<apVars, cmVars, leVars, wsVars>>

\* the transport's onAudio callback (lines 298-300) with the pipeline's
\* 'buffer' listener
AgentOnAudio(chunk) ==
    /\ wsStarted
    /\ Len(delivered) + Len(chunk) <= MaxPending
    /\ isStreaming => /\ Len(audioBuffer) < MaxChunks
                      /\ sinceFlush.chunks < MaxPending
    /\ LET r == AudioPipeline_processAudioChunk(Pipeline, config, chunk)
       IN  /\ APCall("processAudioChunk", chunk, r)
           /\ sinceFlush' = AcceptedAfter(sinceFlush, chunk, r.ev)
           /\ sinceReset' = AcceptedAfter(sinceReset, chunk, r.ev)
           /\ sentAudio' = onBuffer(r.ev, isConnected, sentAudio)
    /\ delivered' = IF isConnected THEN delivered \o chunk ELSE delivered
    /\ agCall' = AgCall("onAudio", "returned")
    /\ agEvents' = <<>>
    /\ agTrace' = <<Call("audioPipeline.processAudioChunk", "")>>
    /\ UNCHANGED <<agentConfig, isConnected, wsStarted, rcVars, plVars>>
    /\ UNCHANGED <<cmVars, leVars, wsVars>>

\* the agent's 'lead' events of a final extraction r (lines 224-229): one
\* from the extractor's 'lead' listener (lines 175-183) for each event the
\* extractor emitted, then one for the lead returned
onLead(r) ==
    [i \in 1..Len(r.ev) |-> Ev("lead", "extractor")]
        \o (IF r.ret.kind = "lead" THEN <<Ev("lead", "final")>> ELSE <<>>)

\* disconnect() resolves (lines 223-237): the final extraction over the
\* history (enableLeadExtraction is true by default), the provider
\* disconnects, the conversation ends; before: the calls stop() made first
VoxAgent_disconnect(before) ==
    /\ CMCall(CmCall("end", NoMessage, FALSE), ConversationManager_end(Manager))
    /\ cmEnded' = TRUE
    /\ Cancelled
    /\ isConnected' = FALSE
    /\ \E r \in {LeadExtractor_processConversation(Extractor, leadConfig, state.messages)} :
           /\ LECall(LeConversationCall(state.messages), r)
           /\ agEvents' = onLead(r) \o <<Ev("disconnect", "")>>
           /\ agTrace' = before \o disconnectTrace(plugins, r)
    /\ reconnectTimers' = [i \in DOMAIN reconnectTimers |->
                              [reconnectTimers[i] EXCEPT !.torn = TRUE]]
    /\ UNCHANGED <<nextId, cmStarted, accepted>>
    /\ UNCHANGED <<agentConfig, sentAudio, delivered>>
    /\ UNCHANGED <<reconnectAttempts, connecting, scheduled>>
    /\ UNCHANGED <<plugins, conversation, clients>>
    /\ UNCHANGED apVars

AgentDisconnect ==
    /\ isConnected
    /\ VoxAgent_disconnect(<<>>)
    /\ agCall' = AgCall("disconnect", "resolved")
    /\ UNCHANGED wsStarted

\* stop(), lines 319-325: the server stops, then disconnect()
AgentStop ==
    /\ wsStarted
    /\ wsStarted' = FALSE
    /\ VoxAgent_disconnect(<<Call("wsServer.stop", "")>>)
    /\ agCall' = AgCall("stop", "resolved")

\* the provider's onResponse callback (lines 134-138): the reply is stored
\* as an assistant message; the 'message' listener (lines 145-158) passes
\* only user messages to the lead extractor
AgentOnResponse(content) ==
    /\ state.isActive => Len(accepted) < MaxAdds
    /\ CMCall(CmCall("addMessage", Message("assistant", content), FALSE),
              ConversationManager_addMessage(Manager, cmConfig, now, "assistant", content))
    /\ accepted' = IF state.isActive
                   THEN Append(accepted, Message("assistant", content))
                   ELSE accepted
    /\ lastActivity' = Activity(state.isActive, timeouts')
    /\ agCall' = AgCall("onResponse", "returned")
    /\ agEvents' = <<Ev("response", content)>>
    /\ agTrace' = <<Call("conversationManager.addMessage", content)>>
                      \o (IF state.isActive
                          THEN messageListener(plugins, Message("assistant", content),
                                               [ev |-> <<>>, ret |-> NullLead])
                          ELSE <<>>)
                      \o <<Call("emit", "response"), Call("config.onResponse", content)>>
    /\ conversation' = seenThrough(conversation, Manager, cmConfig, "assistant", content)
    /\ clients' = ownMessages(clients, state')
    /\ UNCHANGED plugins
    /\ UNCHANGED <<nextId, cmStarted, cmEnded, retired, cancelled>>
    /\ UNCHANGED <<agentConfig, isConnected, wsStarted, sentAudio, delivered, rcVars>>
    /\ UNCHANGED <<apVars, leVars, wsVars>>

\* (a slip: the listener ends the conversation, as the README's "End call
\* after N ms of silence" would have it)
VoxAgent_onSilenceTimeout_endsCall(m) ==
    [m  |-> ConversationManager_end(m).m,
     ev |-> <<Ev("silenceTimeout", "conversation")>>]

\* the manager's 'silenceTimeout' listener (lines 160-163): the agent emits
\* 'silenceTimeout' with this.conversation and logs a warning
VoxAgent_onSilenceTimeout(m) ==
    [m  |-> m,
     ev |-> <<Ev("silenceTimeout", "conversation")>>]

\* the manager's silence timeout fires inside an agent
AgentSilenceTimeout ==
    /\ SilenceTimerFires
    /\ LET r == VoxAgent_onSilenceTimeout([Manager EXCEPT !.timeouts = timeouts'])
       IN  /\ state' = r.m.state
           /\ cmEnded' = (cmEnded \/ ~r.m.state.isActive)
           /\ agEvents' = r.ev
    /\ agCall' = AgCall("silenceTimeout", "returned")
    /\ agTrace' = <<Call("emit", "silenceTimeout")>>
    /\ UNCHANGED <<agentConfig, isConnected, wsStarted, sentAudio, delivered, cancelled>>
    /\ UNCHANGED <<rcVars, plVars>>
    /\ UNCHANGED <<apVars, leVars, wsVars>>

-----------------------------------------------------------------------------
(* VoxAgent: connect(), the error handler and its reconnect timers, sendText() *)

\* lines 98-99
maxReconnectAttempts == 5
reconnectDelay == 1000

\* the contexts handleError is called with from outside connect() and
\* disconnect(): the provider's onError callback (lines 140-142), a rejected
\* sendAudio (lines 168-170), the transport's onError (lines 302-304)
ErrorContexts == {"provider", "audio-send", "websocket-client"}

\* the texts given to sendText
SendTexts == {"a", "ann@x.io"}

\* the agent's fields that handleError and sendText read
Agent == [isConnected |-> isConnected, reconnectAttempts |-> reconnectAttempts]

\* (a slip: a reconnect is scheduled whether or not the agent is connected)
VoxAgent_handleError_always(a, context) ==
    IF a.reconnectAttempts < maxReconnectAttempts
    THEN [reconnectAttempts |-> a.reconnectAttempts + 1,
          setTimeout |-> <<reconnectDelay * (a.reconnectAttempts + 1)>>,
          ev |-> <<Ev("error", context)>>]
    ELSE [reconnectAttempts |-> a.reconnectAttempts, setTimeout |-> <<>>,
          ev |-> <<Ev("error", context)>>]

\* (a slip: the ceiling tested with <= instead of <)
VoxAgent_handleError_oneMore(a, context) ==
    IF a.isConnected /\ a.reconnectAttempts <= maxReconnectAttempts
    THEN [reconnectAttempts |-> a.reconnectAttempts + 1,
          setTimeout |-> <<reconnectDelay * (a.reconnectAttempts + 1)>>,
          ev |-> <<Ev("error", context)>>]
    ELSE [reconnectAttempts |-> a.reconnectAttempts, setTimeout |-> <<>>,
          ev |-> <<Ev("error", context)>>]

\* (a slip: every attempt delayed by reconnectDelay)
VoxAgent_handleError_flat(a, context) ==
    IF a.isConnected /\ a.reconnectAttempts < maxReconnectAttempts
    THEN [reconnectAttempts |-> a.reconnectAttempts + 1,
          setTimeout |-> <<reconnectDelay>>,
          ev |-> <<Ev("error", context)>>]
    ELSE [reconnectAttempts |-> a.reconnectAttempts, setTimeout |-> <<>>,
          ev |-> <<Ev("error", context)>>]

\* handleError, lines 362-378: 'error' is emitted; while connected and below
\* the ceiling the counter goes up and a timeout is set with the new
\* counter's multiple of reconnectDelay. setTimeout: the delays of the
\* timeouts set, none or one
VoxAgent_handleError(a, context) ==
    IF a.isConnected /\ a.reconnectAttempts < maxReconnectAttempts
    THEN [reconnectAttempts |-> a.reconnectAttempts + 1,
          setTimeout |-> <<reconnectDelay * (a.reconnectAttempts + 1)>>,
          ev |-> <<Ev("error", context)>>]
    ELSE [reconnectAttempts |-> a.reconnectAttempts, setTimeout |-> <<>>,
          ev |-> <<Ev("error", context)>>]

\* the agent's fields and the event loop after handleError returned r; a
\* timeout is recorded with its place among those set since the last
\* successful connect
HandleError(r) ==
    /\ reconnectAttempts' = r.reconnectAttempts
    /\ reconnectTimers' =
           reconnectTimers \o [i \in 1..Len(r.setTimeout) |->
                                  [delay |-> r.setTimeout[i], attempt |-> scheduled + i,
                                   torn |-> FALSE]]
    /\ scheduled' = scheduled + Len(r.setTimeout)

\* connect() is called, lines 189-192: it awaits the provider's initialize()
AgentConnect ==
    /\ connecting < MaxConnecting
    /\ connecting' = connecting + 1
    /\ agCall' = AgCall("connect", "pending")
    /\ agEvents' = <<>>
    /\ agTrace' = <<Call("provider.initialize", "")>>
    /\ UNCHANGED <<agentConfig, isConnected, wsStarted, sentAudio, delivered>>
    /\ UNCHANGED <<reconnectAttempts, reconnectTimers, scheduled, plVars>>
    /\ UNCHANGED <<apVars, cmVars, leVars, wsVars>>

\* the reconnect timeout at index i fires, lines 372-376: its callback calls
\* connect(). A timeout set earlier with a delay that is not longer fires first
ReconnectTimerFires(i) ==
    /\ i \in DOMAIN reconnectTimers
    /\ \A j \in 1..(i - 1) : reconnectTimers[j].delay > reconnectTimers[i].delay
    /\ connecting < MaxConnecting
    /\ reconnectTimers' = SubSeq(reconnectTimers, 1, i - 1)
                             \o SubSeq(reconnectTimers, i + 1, Len(reconnectTimers))
    /\ connecting' = connecting + 1
    /\ agCall' = AgCall("reconnectTimer", "pending")
    /\ agEvents' = <<>>
    /\ agTrace' = <<Call("provider.initialize", "")>>
    /\ UNCHANGED <<agentConfig, isConnected, wsStarted, sentAudio, delivered>>
    /\ UNCHANGED <<reconnectAttempts, scheduled, plVars>>
    /\ UNCHANGED <<apVars, cmVars, leVars, wsVars>>

\* a connect() call goes on after the provider has initialized and
\* connected, lines 195-211
AgentConnectResolves ==
    /\ connecting > 0
    /\ nextId < MaxConversations
    /\ LET r == VoxAgent_connect(Manager, cmConfig, agentConfig, nextId, now)
       IN  /\ CMCall(CmCall("start", NoMessage, FALSE), r)
           /\ accepted' = IF agentConfig.systemPrompt # ""
                          THEN <<Message("system", agentConfig.systemPrompt)>>
                          ELSE <<>>
           /\ conversation' = r.conversation
    /\ nextId' = nextId + 1
    /\ cmStarted' = TRUE
    /\ cmEnded' = FALSE
    /\ Rebound
    /\ lastActivity' = Activity(TRUE, timeouts')
    /\ isConnected' = TRUE
    /\ reconnectAttempts' = 0
    /\ scheduled' = 0
    /\ connecting' = connecting - 1
    /\ agCall' = AgCall("connect", "resolved")
    /\ agEvents' = <<Ev("connect", "true")>>
    /\ agTrace' = <<Call("provider.connect", "")>> \o connectTrace(agentConfig, plugins)
    /\ UNCHANGED <<agentConfig, wsStarted, sentAudio, delivered, reconnectTimers>>
    /\ UNCHANGED <<plugins, clients>>
    /\ UNCHANGED <<apVars, leVars, wsVars>>

\* the provider's initialize() or connect() fails in a connect() call, lines
\* 212-215: handleError(error, 'connect'), and the error is thrown again
AgentConnectRejects ==
    /\ connecting > 0
    /\ Len(reconnectTimers) < MaxTimers
    /\ LET r == VoxAgent_handleError(Agent, "connect")
       IN  /\ HandleError(r)
           /\ agEvents' = r.ev
    /\ connecting' = connecting - 1
    /\ agCall' = AgCall("connect", "rejected")
    /\ agTrace' = <<Call("emit", "error"), Call("config.onError", "connect")>>
    /\ UNCHANGED <<agentConfig, isConnected, wsStarted, sentAudio, delivered, plVars>>
    /\ UNCHANGED <<apVars, cmVars, leVars, wsVars>>

\* an error reaches handleError from the provider, from a rejected
\* sendAudio or from the transport
AgentError(context) ==
    /\ Len(reconnectTimers) < MaxTimers
    /\ LET r == VoxAgent_handleError(Agent, context)
       IN  /\ HandleError(r)
           /\ agEvents' = r.ev
    /\ agCall' = AgCall("onError", "returned")
    /\ agTrace' = <<Call("emit", "error"), Call("config.onError", context)>>
    /\ UNCHANGED <<agentConfig, isConnected, wsStarted, sentAudio, delivered, connecting>>
    /\ UNCHANGED plVars
    /\ UNCHANGED <<apVars, cmVars, leVars, wsVars>>

\* disconnect() rejects, lines 223-243: after the final extraction the
\* provider's disconnect() fails; handleError(error, 'disconnect') runs
\* while isConnected is still true
AgentDisconnectFails ==
    /\ isConnected
    /\ Len(reconnectTimers) < MaxTimers
    /\ \E r \in {LeadExtractor_processConversation(Extractor, leadConfig, state.messages)},
          h \in {VoxAgent_handleError(Agent, "disconnect")} :
           /\ LECall(LeConversationCall(state.messages), r)
           /\ HandleError(h)
           /\ agEvents' = onLead(r) \o h.ev
           /\ agTrace' = rejectedDisconnectTrace(plugins, r)
    /\ agCall' = AgCall("disconnect", "rejected")
    /\ UNCHANGED <<agentConfig, isConnected, wsStarted, sentAudio, delivered, connecting>>
    /\ UNCHANGED plVars
    /\ UNCHANGED <<apVars, cmVars>>

\* the 'message' listener, lines 145-158, for the extraction r of a user
\* message: the agent's 'lead' events, one from the extractor's 'lead'
\* listener for each event the extractor emitted, one for the lead returned
onMessage(r) ==
    [i \in 1..Len(r.ev) |-> Ev("lead", "extractor")]
        \o (IF r.ret.kind = "lead" THEN <<Ev("lead", "message")>> ELSE <<>>)

\* (a slip: the test of isConnected, lines 250-252, left out)
VoxAgent_sendText_unguarded(a, m, cfg, le, lcfg, t, pl, text, sent) ==
    LET added == ConversationManager_addMessage(m, cfg, t, "user", text)
        lead  == IF added.ev # <<>>
                 THEN LeadExtractor_processMessage(le, lcfg, Message("user", text))
                 ELSE [le |-> le, ev |-> <<>>, ret |-> NullLead]
    IN  [outcome |-> IF sent THEN "resolved" ELSE "rejected",
         m |-> added.m, added |-> added.ev # <<>>, cmEv |-> added.ev,
         lead |-> lead, ev |-> onMessage(lead),
         trace |-> <<Call("conversationManager.addMessage", text)>>
                      \o (IF added.ev # <<>>
                          THEN messageListener(pl, Message("user", text), lead) ELSE <<>>)
                      \o <<Call("provider.sendText", text)>>]

\* sendText(text), lines 249-256, on agent a with manager m, extractor le
\* and plugins pl, for a provider whose sendText calls nothing back;
\* sent: the provider's sendText resolves
VoxAgent_sendText(a, m, cfg, le, lcfg, t, pl, text, sent) ==
    IF ~a.isConnected
    THEN [outcome |-> "rejected", m |-> m, added |-> FALSE, cmEv |-> <<>>,
          lead |-> [le |-> le, ev |-> <<>>, ret |-> NullLead], ev |-> <<>>,
          trace |-> <<>>]
    ELSE LET added == ConversationManager_addMessage(m, cfg, t, "user", text)
             lead  == IF added.ev # <<>>
                      THEN LeadExtractor_processMessage(le, lcfg, Message("user", text))
                      ELSE [le |-> le, ev |-> <<>>, ret |-> NullLead]
         IN  [outcome |-> IF sent THEN "resolved" ELSE "rejected",
              m |-> added.m, added |-> added.ev # <<>>, cmEv |-> added.ev,
              lead |-> lead, ev |-> onMessage(lead),
              trace |-> <<Call("conversationManager.addMessage", text)>>
                           \o (IF added.ev # <<>>
                               THEN messageListener(pl, Message("user", text), lead)
                               ELSE <<>>)
                           \o <<Call("provider.sendText", text)>>]

\* sendText(text) is called; the provider's sendText resolves or rejects
AgentSendText(text, sent) ==
    /\ state.isActive => Len(accepted) < MaxAdds
    /\ ~isConnected => sent
    /\ \E r \in {VoxAgent_sendText(Agent, Manager, cmConfig, Extractor, leadConfig,
                                  now, plugins, text, sent)} :
           /\ state' = r.m.state
           /\ silenceTimer' = r.m.silenceTimer
           /\ timeouts' = r.m.timeouts
           /\ cmCall' = IF r.trace = <<>> THEN cmCall
                        ELSE CmCall("addMessage", Message("user", text), FALSE)
           /\ cmEvents' = IF r.trace = <<>> THEN cmEvents ELSE r.cmEv
           /\ accepted' = IF r.added THEN Append(accepted, Message("user", text))
                          ELSE accepted
           /\ lastActivity' = IF r.trace = <<>> THEN lastActivity
                              ELSE Activity(state.isActive, timeouts')
           /\ currentLead' = r.lead.le.currentLead
           /\ emailLastIndex' = r.lead.le.emailLastIndex
           /\ leCall' = IF r.added THEN LeCall("processMessage", Message("user", text))
                        ELSE leCall
           /\ leRet' = IF r.added THEN r.lead.ret ELSE leRet
           /\ leEvents' = IF r.added THEN r.lead.ev ELSE leEvents
           /\ agCall' = AgCall("sendText", r.outcome)
           /\ agEvents' = r.ev
           /\ agTrace' = r.trace
           /\ conversation' = IF r.trace = <<>> THEN conversation
                               ELSE seenThrough(conversation, Manager, cmConfig, "user", text)
    /\ clients' = ownMessages(clients, state')
    /\ UNCHANGED plugins
    /\ UNCHANGED <<cmConfig, now, nextId, cmStarted, cmEnded, retired, cancelled>>
    /\ UNCHANGED <<agentConfig, isConnected, wsStarted, sentAudio, delivered, rcVars>>
    /\ UNCHANGED <<leadConfig, apVars, wsVars>>

-----------------------------------------------------------------------------
(* VoxAgent: use(), the provider's transcripts, providers that report a     *)
(* sent text back, and the transport's clients                              *)

\* the transcript segments a provider delivers
AgentSegments == [text : SendTexts, isFinal : BOOLEAN]

\* the providers of the repository: sendText of the Anthropic and the xAI
\* provider calls the transcript callbacks with the text as a final segment
\* (part_008:113-122, providers/xai.ts:106-115), OpenAI's does not
\* (providers/openai.ts:133-156)
Providers == {"openai", "anthropic", "xai"}
reportsSentText(provider) == provider \in {"anthropic", "xai"}

\* use(plugin), lines 330-334
AgentUse(kind) ==
    /\ Len(plugins) < MaxPlugins
    /\ plugins' = Append(plugins, kind)
    /\ agCall' = AgCall("use", "returned")
    /\ agEvents' = <<>>
    /\ agTrace' = <<Hook(Len(plugins) + 1, "initialize", "")>>
    /\ UNCHANGED <<agentConfig, isConnected, wsStarted, sentAudio, delivered, rcVars>>
    /\ UNCHANGED <<conversation, clients>>
    /\ UNCHANGED <<apVars, cmVars, leVars, wsVars>>

\* the provider's onTranscript callback, lines 128-132, with the manager's
\* 'message' listener: the segment goes to addTranscript, then 'transcript'
\* is emitted and the configuration's onTranscript called
VoxAgent_onTranscript(m, cfg, le, lcfg, t, pl, segment) ==
    LET tr    == ConversationManager_addTranscript(m, cfg, t, segment)
        added == \E i \in DOMAIN tr.ev : tr.ev[i].type = "message"
        lead  == IF added
                 THEN LeadExtractor_processMessage(le, lcfg, Message("user", segment.text))
                 ELSE [le |-> le, ev |-> <<>>, ret |-> NullLead]
    IN  [m |-> tr.m, added |-> added, cmEv |-> tr.ev, lead |-> lead,
         ev |-> onMessage(lead) \o <<Ev("transcript", segment.text)>>,
         trace |-> <<Call("conversationManager.addTranscript", segment.text)>>
                      \o (IF added
                          THEN messageListener(pl, Message("user", segment.text), lead)
                          ELSE <<>>)
                      \o <<Call("emit", "transcript"),
                           Call("config.onTranscript", segment.text)>>]

\* what a step of the agent that ran the manager's addMessage or
\* addTranscript leaves in the manager, the extractor and the agent; r: the
\* result of the step, call: the manager's method, msgs: the messages added,
\* leEv: the events the extractor emitted
AgentStepOnConversation(r, call, msgs, leEv) ==
    /\ state' = r.m.state
    /\ silenceTimer' = r.m.silenceTimer
    /\ timeouts' = r.m.timeouts
    /\ cmCall' = call
    /\ cmEvents' = r.cmEv
    /\ accepted' = accepted \o msgs
    /\ lastActivity' = Activity(state.isActive, timeouts')
    /\ currentLead' = r.lead.le.currentLead
    /\ emailLastIndex' = r.lead.le.emailLastIndex
    /\ leCall' = IF msgs # <<>> THEN LeCall("processMessage", msgs[Len(msgs)]) ELSE leCall
    /\ leRet' = IF msgs # <<>> THEN r.lead.ret ELSE leRet
    /\ leEvents' = IF msgs # <<>> THEN leEv ELSE leEvents
    /\ agEvents' = r.ev
    /\ agTrace' = r.trace
    /\ clients' = ownMessages(clients, state')
    /\ UNCHANGED <<cmConfig, now, nextId, cmStarted, cmEnded, retired, cancelled>>
    /\ UNCHANGED <<agentConfig, isConnected, wsStarted, sentAudio, delivered, rcVars>>
    /\ UNCHANGED <<plugins, leadConfig, apVars, wsVars>>

\* the provider delivers a transcript segment
AgentOnTranscript(segment) ==
    /\ (state.isActive /\ segment.isFinal) => Len(accepted) < MaxAdds
    /\ \E r \in {VoxAgent_onTranscript(Manager, cmConfig, Extractor, leadConfig, now,
                                      plugins, segment)} :
           AgentStepOnConversation(r, CmCall("addTranscript", Message("user", segment.text),
                                             segment.isFinal),
                                   IF r.added THEN <<Message("user", segment.text)>> ELSE <<>>,
                                   r.lead.ev)
    /\ conversation' = IF state.isActive /\ segment.isFinal
                       THEN seenThrough(conversation, Manager, cmConfig, "user", segment.text)
                       ELSE conversation
    /\ agCall' = AgCall("onTranscript", "returned")

\* sendText(text), lines 249-256, on a connected agent with a provider whose
\* sendText reports the text back before it calls its API (as the Anthropic
\* and the xAI provider do): addMessage with result s, then inside
\* provider.sendText the onTranscript callback above with a final segment of
\* that text, with result c
VoxAgent_sendText_reported(s, c, text) ==
    [outcome |-> s.outcome, m |-> c.m,
     added |-> (IF s.added THEN <<Message("user", text)>> ELSE <<>>)
                  \o (IF c.added THEN <<Message("user", text)>> ELSE <<>>),
     cmEv |-> s.cmEv \o c.cmEv, lead |-> c.lead, ev |-> s.ev \o c.ev,
     trace |-> SubSeq(s.trace, 1, Len(s.trace) - 1)
                  \o <<Call("provider.sendText", text)>> \o c.trace]

\* sendText(text) is called on a connected agent whose provider reports the
\* text back; the provider's API call resolves or rejects
AgentSendTextReported(text, sent) ==
    /\ isConnected
    /\ state.isActive => Len(accepted) + 2 <= MaxAdds
    /\ \E s \in {VoxAgent_sendText(Agent, Manager, cmConfig, Extractor, leadConfig,
                                   now, plugins, text, sent)} :
       \E c \in {VoxAgent_onTranscript(s.m, cmConfig, s.lead.le, leadConfig, now, plugins,
                                       [text |-> text, isFinal |-> TRUE])} :
       \E r \in {VoxAgent_sendText_reported(s, c, text)} :
          /\ AgentStepOnConversation(r, CmCall("addTranscript", Message("user", text), TRUE),
                                     r.added, s.lead.ev \o c.lead.ev)
          /\ agCall' = AgCall("sendText", r.outcome)
          /\ conversation' = seenThrough(seenThrough(conversation, Manager, cmConfig,
                                                     "user", text),
                                         s.m, cmConfig, "user", text)

\* sendText(text) on a connected agent configured with one of the providers
AgentSendTextVia(provider, text, sent) ==
    /\ isConnected
    /\ IF reportsSentText(provider)
       THEN AgentSendTextReported(text, sent)
       ELSE AgentSendText(text, sent)

\* the clients of the transport server, by the id the server gives them
ClientNames == <<"client-1", "client-2", "client-3">>
Clients == {ClientNames[i] : i \in 1..MaxClients}

\* the transport's onConnect callback of listen(), lines 271-282:
\* 'clientConnect', then a new conversation on the agent's one manager, a
\* new this.conversation and the system prompt, as in connect()
AgentClientConnect(c) ==
    /\ wsStarted
    /\ \A k \in clients : k.id # c
    \* (conversations 0 and 1 are the constructor's and listen()'s)
    /\ nextId - 2 < MaxSessions
    /\ \E r \in {VoxAgent_connect(Manager, cmConfig, agentConfig, nextId, now)} :
           /\ CMCall(CmCall("start", NoMessage, FALSE), r)
           /\ accepted' = IF agentConfig.systemPrompt # ""
                          THEN <<Message("system", agentConfig.systemPrompt)>>
                          ELSE <<>>
           /\ conversation' = r.conversation
           /\ clients' = ownMessages(clients, r.m.state)
                             \cup {[id |-> c, conversation |-> r.m.state.id,
                                    messages |-> r.m.state.messages]}
    /\ nextId' = nextId + 1
    /\ cmStarted' = TRUE
    /\ cmEnded' = FALSE
    /\ Rebound
    /\ lastActivity' = Activity(TRUE, timeouts')
    /\ agCall' = AgCall("clientConnect", "returned")
    /\ agEvents' = <<Ev("clientConnect", c)>>
    /\ agTrace' = <<Call("emit", "clientConnect"), Call("conversationManager.start", "")>>
                      \o (IF agentConfig.systemPrompt # ""
                          THEN <<Call("conversationManager.addMessage",
                                      agentConfig.systemPrompt)>>
                                   \o messageListener(plugins,
                                          Message("system", agentConfig.systemPrompt),
                                          [ev |-> <<>>, ret |-> NullLead])
                          ELSE <<>>)
    /\ UNCHANGED <<agentConfig, isConnected, wsStarted, sentAudio, delivered, rcVars>>
    /\ UNCHANGED plugins
    /\ UNCHANGED <<apVars, leVars, wsVars>>

\* the transport's onDisconnect callback of listen(), lines 284-296:
\* 'clientDisconnect', then the extraction over the manager's current state
AgentClientDisconnect(c) ==
    /\ \E k \in clients : k.id = c
    /\ \E r \in {LeadExtractor_processConversation(Extractor, leadConfig, state.messages)} :
           /\ LECall(LeConversationCall(state.messages), r)
           /\ agEvents' = <<Ev("clientDisconnect", c)>> \o onLead(r)
           /\ agTrace' = <<Call("emit", "clientDisconnect"),
                           Call("leadExtractor.processConversation", "")>>
                             \o onExtractorLeads(plugins, r.ev)
                             \o (IF r.ret.kind = "lead"
                                 THEN <<Call("emit", "lead"), Call("config.onLead", "")>>
                                 ELSE <<>>)
    /\ clients' = {k \in clients : k.id # c}
    /\ agCall' = AgCall("clientDisconnect", "returned")
    /\ UNCHANGED <<agentConfig, isConnected, wsStarted, sentAudio, delivered, rcVars>>
    /\ UNCHANGED <<plugins, conversation>>
    /\ UNCHANGED <<apVars, cmVars>>

-----------------------------------------------------------------------------
(* VoxKitWSServer (part_013): the clients map, the sockets, the heartbeat *)

\* the server's fields and the sockets it accepted, as one value
Server == [clients |-> wsClients, sockets |-> sockets, disconnected |-> disconnected]

\* a function without the key id
Without(f, id) == [k \in DOMAIN f \ {id} |-> f[k]]

\* ws.close(code, reason) on a socket: an open socket starts the closing
\* handshake; its 'close' event is emitted later, when the connection is down
WebSocket_close(readyState) == IF readyState = "OPEN" THEN "CLOSING" ELSE readyState

\* closeClient(clientId, code, reason), lines 152-167: unknown id, false;
\* else the socket is closed, the client deleted from the map and
\* options.onDisconnect called with it
VoxKitWSServer_closeClient(srv, id) ==
    IF id \notin DOMAIN srv.clients
    THEN [srv |-> srv, ret |-> FALSE]
    ELSE [srv |-> [clients      |-> Without(srv.clients, id),
                   sockets      |-> [srv.sockets EXCEPT ![id] = WebSocket_close(@)],
                   disconnected |-> [srv.disconnected EXCEPT ![id] = @ + 1]],
          ret |-> TRUE]

\* the socket's 'close' listener, lines 227-231: the client is deleted from
\* the map (it may be gone already) and options.onDisconnect called with it
onSocketClose(srv, id) ==
    [clients      |-> Without(srv.clients, id),
     sockets      |-> [srv.sockets EXCEPT ![id] = "CLOSED"],
     disconnected |-> [srv.disconnected EXCEPT ![id] = @ + 1]]

\* for (const [id, client] of this.clients) closeClient(id, 1000, ...), lines
\* 91-93, over the ids not yet visited
RECURSIVE closeClients(_, _)
closeClients(srv, ids) ==
    IF ids = {} THEN srv
    ELSE LET id == CHOOSE k \in ids : TRUE
         IN  closeClients(VoxKitWSServer_closeClient(srv, id).srv, ids \ {id})

\* one run of the heartbeat callback, lines 283-292, over the ids not yet
\* visited: a client that has not answered the last ping is closed with
\* closeClient(id, 1001, ...), the others are marked and pinged
RECURSIVE heartbeat(_, _)
heartbeat(srv, ids) ==
    IF ids = {} THEN srv
    ELSE LET id == CHOOSE k \in ids : TRUE
         IN  heartbeat(IF ~srv.clients[id]
                       THEN VoxKitWSServer_closeClient(srv, id).srv
                       ELSE [srv EXCEPT !.clients[id] = FALSE],
                       ids \ {id})

\* a step of the server leaves it as srv, after the call or event op on id
WSCall(op, id, srv) ==
    /\ wsClients' = srv.clients
    /\ sockets' = srv.sockets
    /\ disconnected' = srv.disconnected
    /\ wsCall' = [op |-> op, id |-> id]
    /\ UNCHANGED <<apVars, cmVars, agVars, leVars>>

\* start(), lines 45-81: the server listens and the heartbeat is started
WSStart ==
    /\ ~listening
    /\ listening' = TRUE
    /\ heartbeatInterval' = TRUE
    /\ WSCall("start", "", Server)

\* the 'connection' listener, lines 193-214: a client with a new id is put
\* into the map, alive, and options.onConnect is called
WSConnection(id) ==
    /\ listening
    /\ id \notin DOMAIN sockets
    /\ WSCall("connection", id,
              [clients      |-> [k \in DOMAIN wsClients \cup {id} |->
                                    IF k = id THEN TRUE ELSE wsClients[k]],
               sockets      |-> [k \in DOMAIN sockets \cup {id} |->
                                    IF k = id THEN "OPEN" ELSE sockets[k]],
               disconnected |-> [k \in DOMAIN disconnected \cup {id} |->
                                    IF k = id THEN 0 ELSE disconnected[k]]])
    /\ UNCHANGED <<listening, heartbeatInterval>>

\* the socket's 'pong' listener, lines 222-224
WSPong(id) ==
    /\ id \in DOMAIN wsClients
    /\ sockets[id] = "OPEN"
    /\ WSCall("pong", id, [Server EXCEPT !.clients[id] = TRUE])
    /\ UNCHANGED <<listening, heartbeatInterval>>

\* the socket's 'close' event: the peer closed an open connection, or the
\* closing handshake that ws.close() started has ended
WSSocketClose(id) ==
    /\ id \in DOMAIN sockets
    /\ sockets[id] # "CLOSED"
    /\ WSCall("close", id, onSocketClose(Server, id))
    /\ UNCHANGED <<listening, heartbeatInterval>>

\* closeClient(id, code, reason) is called
WSCloseClient(id) ==
    /\ WSCall("closeClient", id, VoxKitWSServer_closeClient(Server, id).srv)
    /\ UNCHANGED <<listening, heartbeatInterval>>

\* the heartbeat interval fires, lines 282-293
WSHeartbeat ==
    /\ heartbeatInterval
    /\ WSCall("heartbeat", "", heartbeat(Server, DOMAIN wsClients))
    /\ UNCHANGED <<listening, heartbeatInterval>>

\* stop(), lines 86-112: the heartbeat is stopped, every client closed, and
\* the servers closed
WSStop ==
    /\ listening
    /\ heartbeatInterval' = FALSE
    /\ listening' = FALSE
    /\ WSCall("stop", "", closeClients(Server, DOMAIN wsClients))

\* new VoxKitWSServer(options), lines 30-40
WSInit ==
    /\ wsClients = <<>>
    /\ sockets = <<>>
    /\ heartbeatInterval = FALSE
    /\ listening = FALSE
    /\ disconnected = <<>>
    /\ wsCall = [op |-> "new", id |-> ""]

-----------------------------------------------------------------------------
(* Construction, and the specifications *)

\* new AudioPipeline(cfg), lines 18-34
APInit(cfg) ==
    /\ config = cfg
    /\ audioBuffer = <<>>
    /\ isStreaming = FALSE
    /\ sampleCount = 0
    /\ apCall = [op |-> "new", arg |-> NoChunk]
    /\ apRet = VoidRet
    /\ apEvents = <<>>
    /\ sinceFlush = NoneAccepted
    /\ sinceReset = NoneAccepted

\* new ConversationManager(cfg), lines 255-267: this.state is a conversation
\* made by createNewConversation(), no timer is armed
CMInit(cfg) ==
    /\ cmConfig = cfg
    /\ now = 0
    /\ state = createNewConversation(0, 0)
    /\ silenceTimer = NoTimer
    /\ timeouts = {}
    /\ nextId = 1
    /\ cmCall = CmCall("new", NoMessage, FALSE)
    /\ cmEvents = <<>>
    /\ cmStarted = FALSE
    /\ cmEnded = FALSE
    /\ accepted = <<>>
    /\ retired = <<>>
    /\ lastActivity = -1
    /\ cancelled = FALSE

\* new LeadExtractor(cfg), lines 19 and 40-48
LEInit(cfg) ==
    /\ leadConfig = cfg
    /\ currentLead = EmptyLead
    /\ emailLastIndex = 0
    /\ leCall = LeCall("new", NoMessage)
    /\ leRet = NullLead
    /\ leEvents = <<>>

\* new VoxAgent(cfg), lines 89-121: its extractor has the default configuration
AgentInit(cfg) ==
    /\ agentConfig = cfg
    /\ isConnected = FALSE
    /\ wsStarted = FALSE
    /\ sentAudio = <<>>
    /\ agCall = AgCall("new", "returned")
    /\ agEvents = <<>>
    /\ LEInit([extractOnEveryMessage |-> TRUE, customExtractors |-> <<>>])
    /\ delivered = <<>>
    /\ reconnectAttempts = 0
    /\ reconnectTimers = <<>>
    /\ connecting = 0
    /\ agTrace = <<>>
    /\ scheduled = 0
    /\ plugins = <<>>
    /\ conversation = Snapshot([state |-> createNewConversation(0, 0)])
    /\ clients = {}
    /\ WSInit

\* the constructors' defaults (audio-pipeline.ts:26-32, lead-extractor.ts:260-262)
DefaultAudioConfig == [sampleRate |-> 24000, bufferDurationMs |-> 100, enableVAD |-> TRUE]
DefaultConversationConfig ==
    [maxMessages |-> 100, silenceTimeoutMs |-> 30000, maxConversationDuration |-> 3600,
     enableMetadata |-> TRUE]

\* an AudioPipeline on its own
InitPipeline ==
    /\ \E cfg \in Configs : APInit(cfg)
    /\ CMInit(DefaultConversationConfig)
    /\ AgentInit([systemPrompt |-> ""])

NextPipeline ==
    \/ APStart
    \/ APStop
    \/ APFlushBuffer
    \/ \E chunk \in Chunks : APProcessAudioChunk(chunk)

SpecPipeline == InitPipeline /\ [][NextPipeline]_vars

\* applyVAD reads only the configuration and its argument: its calls are
\* explored on their own, on a pipeline in its constructed state
NextVAD == \E chunk \in VadChunks : APApplyVAD(chunk)

SpecVAD == InitPipeline /\ [][NextVAD]_vars

\* a ConversationManager on its own
InitConversation ==
    /\ APInit(DefaultAudioConfig)
    /\ \E cfg \in ConversationConfigs : CMInit(cfg)
    /\ AgentInit([systemPrompt |-> ""])

NextConversation ==
    \/ CMStart
    \/ CMEnd
    \/ \E msg \in Messages : CMAddMessage(msg)
    \/ \E segment \in Segments : CMAddTranscript(segment)
    \/ CMClear
    \/ CMSilenceTimeout
    \/ CMTick

SpecConversation == InitConversation /\ [][NextConversation]_vars

\* a ConversationManager and the objects it creates and hands out: no
\* watchdog, a history that is never trimmed, metadata enabled or not
StatesConfigs ==
    [maxMessages : {MaxAdds + 2}, silenceTimeoutMs : {0},
     maxConversationDuration : {1}, enableMetadata : BOOLEAN]

InitStates ==
    /\ APInit(DefaultAudioConfig)
    /\ \E cfg \in StatesConfigs : CMInit(cfg)
    /\ AgentInit([systemPrompt |-> ""])

NextStates ==
    \/ CMStart
    \/ CMEnd
    \/ \E msg \in Messages : CMAddMessage(msg)
    \/ CMClear
    \/ \E metadata \in MetadataUpdates : CMUpdateMetadata(metadata)
    \/ \E msg \in Messages : CallerPushesIntoState(msg)
    \/ \E metadata \in MetadataUpdates : \E entry \in metadata : CallerWritesStateMetadata(entry)
    \/ \E flag \in BOOLEAN : CallerSetsStateActive(flag)
    \/ \E msg \in Messages : CallerPushesIntoMessages(msg)
    \/ \E count \in 0..MaxAdds, msg \in Messages : CallerPushesIntoLastMessages(count, msg)

SpecStates == InitStates /\ [][NextStates]_vars

\* a VoxAgent with its own pipeline and manager (lines 112-118: the audio
\* configuration is the caller's, the manager keeps its default maxMessages)
InitAgent ==
    /\ \E cfg \in Configs : APInit(cfg)
    /\ CMInit(DefaultConversationConfig)
    /\ \E cfg \in AgentConfigs : AgentInit(cfg)

NextAgent ==
    \/ AgentListen
    \/ AgentListenFails
    \/ \E chunk \in Chunks : AgentOnAudio(chunk)
    \/ AgentDisconnect
    \/ AgentStop

SpecAgent == InitAgent /\ [][NextAgent]_vars

\* a LeadExtractor on its own
InitLead ==
    /\ APInit(DefaultAudioConfig)
    /\ CMInit(DefaultConversationConfig)
    /\ agentConfig = [systemPrompt |-> ""]
    /\ isConnected = FALSE
    /\ wsStarted = FALSE
    /\ sentAudio = <<>>
    /\ agCall = AgCall("new", "returned")
    /\ agEvents = <<>>
    /\ delivered = <<>>
    /\ reconnectAttempts = 0
    /\ reconnectTimers = <<>>
    /\ connecting = 0
    /\ agTrace = <<>>
    /\ scheduled = 0
    /\ plugins = <<>>
    /\ conversation = Snapshot([state |-> createNewConversation(0, 0)])
    /\ clients = {}
    /\ WSInit
    /\ \E cfg \in LeadConfigs : LEInit(cfg)

NextLead ==
    \/ \E message \in LeadMessages : LEProcessMessage(message)
    \/ LEGetCurrentLead
    \/ LEReset
    \/ \E messages \in Histories : LEProcessConversation(messages)

SpecLead == InitLead /\ [][NextLead]_vars

\* a VoxAgent and its silence watchdog: the manager gets the agent's
\* silenceTimeoutMs and maxConversationDuration (lines 113-116)
InitAgentSilence ==
    /\ APInit(DefaultAudioConfig)
    /\ \E ms \in SilenceTimeouts :
          CMInit([DefaultConversationConfig EXCEPT !.silenceTimeoutMs = ms])
    /\ \E cfg \in AgentConfigs : AgentInit(cfg)

NextAgentSilence ==
    \/ AgentListen
    \/ \E content \in Contents : AgentOnResponse(content)
    \/ AgentSilenceTimeout
    \/ CMTick
    \/ AgentDisconnect
    \/ AgentStop

SpecAgentSilence == InitAgentSilence /\ [][NextAgentSilence]_vars

\* a VoxAgent with connect() and disconnect() called on it, the errors that
\* reach its handler and the reconnect timeouts the handler sets
InitReconnect ==
    /\ APInit(DefaultAudioConfig)
    /\ CMInit(DefaultConversationConfig)
    /\ \E cfg \in AgentConfigs : AgentInit(cfg)

NextReconnect ==
    \/ AgentConnect
    \/ \E i \in 1..MaxTimers : ReconnectTimerFires(i)
    \/ AgentConnectResolves
    \/ AgentConnectRejects
    \/ \E context \in ErrorContexts : AgentError(context)
    \/ AgentDisconnect
    \/ AgentDisconnectFails

SpecReconnect == InitReconnect /\ [][NextReconnect]_vars

\* a VoxAgent with connect(), sendText() and disconnect() called on it
NextSendText ==
    \/ AgentConnect
    \/ AgentConnectResolves
    \/ AgentConnectRejects
    \/ AgentDisconnect
    \/ \E text \in SendTexts, sent \in BOOLEAN : AgentSendText(text, sent)

SpecSendText == InitReconnect /\ [][NextSendText]_vars

\* a VoxAgent with connect(), sendText() and disconnect() called on it, the
\* provider's disconnect() succeeding or failing
NextDisconnect ==
    \/ AgentConnect
    \/ AgentConnectResolves
    \/ \E text \in SendTexts, sent \in BOOLEAN : AgentSendText(text, sent)
    \/ AgentDisconnect
    \/ AgentDisconnectFails

SpecDisconnect == InitReconnect /\ [][NextDisconnect]_vars

\* a VoxAgent with plugins: use(), connect() with or without a system
\* prompt, texts sent (the provider's sendText resolves), disconnect()
NextPlugins ==
    \/ \E kind \in PluginKinds : AgentUse(kind)
    \/ AgentConnect
    \/ AgentConnectResolves
    \/ \E text \in SendTexts : AgentSendText(text, TRUE)
    \/ AgentDisconnect

SpecPlugins == InitReconnect /\ [][NextPlugins]_vars

\* a VoxAgent that is connected, has texts sent to it, meets errors and
\* reconnects when its timeouts fire
NextRecovery ==
    \/ AgentConnect
    \/ AgentConnectResolves
    \/ \E text \in SendTexts : AgentSendText(text, TRUE)
    \/ \E context \in ErrorContexts : AgentError(context)
    \/ \E i \in 1..MaxTimers : ReconnectTimerFires(i)

SpecRecovery == InitReconnect /\ [][NextRecovery]_vars

\* a VoxAgent with one of the repository's providers: connect(), and
\* sendText() on the connected agent
NextProviders ==
    \/ AgentConnect
    \/ AgentConnectResolves
    \/ \E provider \in Providers, text \in SendTexts, sent \in BOOLEAN :
          AgentSendTextVia(provider, text, sent)

SpecProviders == InitReconnect /\ [][NextProviders]_vars

\* a VoxAgent with plugins and a provider that delivers transcript segments
NextTranscripts ==
    \/ \E kind \in PluginKinds : AgentUse(kind)
    \/ AgentConnect
    \/ AgentConnectResolves
    \/ \E segment \in AgentSegments : AgentOnTranscript(segment)

SpecTranscripts == InitReconnect /\ [][NextTranscripts]_vars

\* a VoxAgent that listens: the transport's clients connect and disconnect,
\* the provider delivers final transcripts
NextClients ==
    \/ AgentListen
    \/ \E c \in Clients : AgentClientConnect(c)
    \/ \E text \in SendTexts : AgentOnTranscript([text |-> text, isFinal |-> TRUE])
    \/ \E c \in Clients : AgentClientDisconnect(c)

SpecClients == InitReconnect /\ [][NextClients]_vars

\* a VoxKitWSServer: start(), connections, pongs, heartbeats, closeClient(),
\* the sockets' 'close' events, stop()
NextServer ==
    \/ WSStart
    \/ \E id \in Clients : WSConnection(id)
    \/ \E id \in Clients : WSPong(id)
    \/ \E id \in Clients : WSSocketClose(id)
    \/ \E id \in Clients : WSCloseClient(id)
    \/ WSHeartbeat
    \/ WSStop

SpecServer == InitReconnect /\ [][NextServer]_vars

-----------------------------------------------------------------------------
(* AudioPipeline: properties *)

\* the buffered duration of b bytes is below the configured window:
\* (b / 2) / sampleRate * 1000 < bufferDurationMs
BelowWindow(b) == b * 1000 < config.bufferDurationMs * 2 * config.sampleRate

\* what flushBuffer() must give back for the accepted chunks acc
FlushedExactly(acc, ret, ev) ==
    IF acc.chunks = 0
    THEN ret = NullRet /\ ev = <<>>
    ELSE ret = BytesRet(acc.bytes) /\ ev = <<Ev("buffer", acc.bytes)>>

\* C1 as stated: flushBuffer() returns, and emits in one 'buffer' event, the
\* concatenation of all chunks accepted while streaming since the last flush;
\* a flushBuffer() right after another returns null and emits nothing.
C1_FlushReturnsAllSinceLastFlush ==
    [][apCall'.op = "flushBuffer" =>
         /\ FlushedExactly(sinceFlush, apRet', apEvents')
         /\ (apCall.op = "flushBuffer" => apRet' = NullRet /\ apEvents' = <<>>)]_vars

\* C1 as amended: flushBuffer() returns, and emits in one 'buffer' event, the
\* concatenation in arrival order of all chunks accepted while streaming since
\* the last flush or start(), whichever came last; a flushBuffer() right after
\* another returns null and emits nothing.
C1_FlushReturnsAllSinceFlushOrStart ==
    [][apCall'.op = "flushBuffer" =>
         /\ FlushedExactly(sinceReset, apRet', apEvents')
         /\ (apCall.op = "flushBuffer" => apRet' = NullRet /\ apEvents' = <<>>)]_vars

\* C1 witness: a manual flush has returned three bytes, which took two chunks
C1_Witness ==
    /\ apCall.op = "flushBuffer"
    /\ apRet = BytesRet(<<2, 255, 2>>)
    /\ apEvents = <<Ev("buffer", <<2, 255, 2>>)>>

\* C2: processAudioChunk on a pipeline that is not streaming emits neither
\* 'chunk' nor 'buffer' and leaves the buffer and the byte counter alone.
C2_DroppedWhenNotStreaming ==
    [][apCall'.op = "processAudioChunk" /\ ~isStreaming =>
         /\ EventsOf(apEvents', "chunk") = <<>>
         /\ EventsOf(apEvents', "buffer") = <<>>
         /\ audioBuffer' = audioBuffer
         /\ sampleCount' = sampleCount]_vars

\* C2 witness: a non-empty chunk was passed to a pipeline stopped after use
C2_Witness ==
    /\ apCall.op = "processAudioChunk"
    /\ apCall.arg # <<>>
    /\ ~isStreaming
    /\ sinceFlush.chunks > 0

\* C4: stop() on a non-empty buffer emits exactly one 'buffer' event with all
\* buffered bytes and then 'stopped'; after stop() the pipeline is not
\* streaming and its buffer is empty.
C4_StopFlushesBeforeStopped ==
    [][apCall'.op = "stop" =>
         /\ ~isStreaming'
         /\ audioBuffer' = <<>>
         /\ (Len(audioBuffer) > 0 =>
               apEvents' = <<Ev("buffer", sinceReset.bytes), Ev("stopped", <<>>)>>)]_vars

\* C4 witness: stop() has flushed a buffer of two chunks
C4_Witness ==
    /\ apCall.op = "stop"
    /\ apEvents = <<Ev("buffer", <<255, 2, 2>>), Ev("stopped", <<>>)>>
    /\ ~isStreaming

\* the first half of C5: a call that brings the buffered bytes to the window
\* emits them all in one 'buffer' event and empties the buffer
AutoFlushAtWindow ==
    LET buffered == sinceReset.bytes \o apCall'.arg
    IN  isStreaming /\ ~BelowWindow(Len(buffered)) =>
          /\ EventsOf(apEvents', "buffer") = <<Ev("buffer", buffered)>>
          /\ audioBuffer' = <<>>

\* C5 as stated: a processAudioChunk call that brings the buffered duration
\* to bufferDurationMs flushes within the call, and after every
\* processAudioChunk call the buffered duration is strictly below
\* bufferDurationMs.
C5_DurationBelowWindowAfterCall ==
    [][apCall'.op = "processAudioChunk" =>
         /\ AutoFlushAtWindow
         /\ BelowWindow(Len(Combine(audioBuffer')))]_vars

\* C5 as amended: a processAudioChunk call that brings the buffered duration
\* to bufferDurationMs flushes within the call, and after every
\* processAudioChunk call the buffer is empty or its duration is strictly
\* below bufferDurationMs (with bufferDurationMs = 0 the empty buffer's
\* duration, 0, is not below the window).
C5_EmptyOrBelowWindowAfterCall ==
    [][apCall'.op = "processAudioChunk" =>
         /\ AutoFlushAtWindow
         /\ (audioBuffer' = <<>> \/ BelowWindow(Len(Combine(audioBuffer'))))]_vars

\* C5 witness: a chunk completed a window of more than its own bytes and the
\* call flushed them all
C5_Witness ==
    /\ apCall.op = "processAudioChunk"
    /\ config.bufferDurationMs > 0
    /\ Len(apEvents) = 2
    /\ apEvents[2].type = "buffer"
    /\ Len(apEvents[2].data) > Len(apCall.arg)
    /\ audioBuffer = <<>>

\* C6: applyVAD never throws: it returns a {hasSpeech, confidence} result for
\* every chunk, an empty one and one of odd length included.
C6_ApplyVADNeverThrows ==
    apCall.op = "applyVAD" => apRet.kind = "vad"

-----------------------------------------------------------------------------
(* VoxAgent: properties *)

\* C3: after listen() has succeeded and while the agent is connected, every
\* chunk the transport delivers through onAudio reaches provider.sendAudio in
\* arrival order.  Stated on finite runs: no delivered chunk is dropped, the
\* bytes delivered while connected are those already forwarded followed by
\* those the pipeline still buffers for a later flush.
C3_DeliveredAudioIsForwarded ==
    delivered = Combine(sentAudio) \o Combine(audioBuffer)

-----------------------------------------------------------------------------
(* ConversationManager: properties *)

\* the last min(n, Len(s)) entries of s
LastN(s, n) == SubSeq(s, Len(s) - (IF n < Len(s) THEN n ELSE Len(s)) + 1, Len(s))

\* C7: after end(), and until the next start(), no addMessage call increases
\* the message count or emits a 'message' event.
C7_NoMessageAfterEnd ==
    [][cmCall'.op = "addMessage" /\ cmEnded =>
         /\ Len(state'.messages) <= Len(state.messages)
         /\ EventsOf(cmEvents', "message") = <<>>]_vars

\* C7 witness: addMessage was called on an ended conversation with a history
C7_Witness ==
    /\ cmCall.op = "addMessage"
    /\ cmEnded
    /\ Len(state.messages) = 2

\* C8: for every maxMessages N >= 0, after k accepted addMessage calls
\* getMessages() is exactly the last min(k, N) accepted messages in arrival
\* order (so the count never exceeds N).
C8_HistoryIsLastMaxMessages ==
    ConversationManager_getMessages(Manager) = LastN(accepted, cmConfig.maxMessages)

\* C9: on an active conversation a non-final segment leaves getMessages() as
\* it was, a final segment appends exactly one message with role 'user' and
\* the segment's text (the oldest messages make room for it), and either emits
\* exactly one 'transcript' event; on an inactive conversation addTranscript
\* changes nothing and emits nothing.
C9_OnlyFinalTranscriptsStored ==
    [][cmCall'.op = "addTranscript" =>
         LET text == cmCall'.content
             new  == Message("user", text)
             seg  == [text |-> text, isFinal |-> cmCall'.isFinal]
         IN  IF state.isActive
             THEN /\ EventsOf(cmEvents', "transcript") = <<Ev("transcript", seg)>>
                  /\ IF cmCall'.isFinal
                     THEN /\ \E k \in 0..Len(state.messages) :
                                state'.messages =
                                  SubSeq(state.messages, k + 1, Len(state.messages)) \o <<new>>
                          /\ EventsOf(cmEvents', "message") = <<Ev("message", new)>>
                     ELSE /\ state'.messages = state.messages
                          /\ EventsOf(cmEvents', "message") = <<>>
             ELSE /\ state' = state
                  /\ silenceTimer' = silenceTimer
                  /\ timeouts' = timeouts
                  /\ cmEvents' = <<>>]_vars

\* C9 witness: a final segment was stored behind an assistant message
C9_Witness ==
    /\ cmCall.op = "addTranscript"
    /\ cmCall.isFinal
    /\ state.messages = <<Message("assistant", "a"), Message("user", "b")>>
    /\ cmEvents = <<Ev("message", Message("user", "b")),
                    Ev("transcript", [text |-> "b", isFinal |-> TRUE])>>

\* C10: a newly constructed manager is inactive until its first start(): up to
\* then the history stays empty, no 'message' event is emitted and isValid()
\* is false.
C10_InactiveUntilFirstStart ==
    ~cmStarted =>
        /\ ~state.isActive
        /\ state.messages = <<>>
        /\ EventsOf(cmEvents, "message") = <<>>
        /\ ~ConversationManager_isValid(Manager, cmConfig, now)

-----------------------------------------------------------------------------
(* ConversationManager: the silence watchdog *)

\* the calls that cancel or replace a pending timeout
TimerCalls == {"start", "addMessage", "addTranscript", "end"}

\* C14: with silenceTimeoutMs = T > 0, start() and every change of the history
\* (an accepted addMessage, a final addTranscript, clear()) restart the silence
\* window: 'silenceTimeout' never fires less than T after the most recent of
\* them.
C14_TimeoutNotBeforeWindowAfterActivity ==
    [][cmCall'.op = "silenceTimer" =>
         (now - lastActivity) * 1000 >= cmConfig.silenceTimeoutMs]_vars

\* C15: at most one silence timeout is pending at any time, and none when
\* silenceTimeoutMs = 0; the timeout that fires is the one armed last, it
\* emits exactly one 'silenceTimeout' event and leaves none pending, and no
\* other step emits the event; a pending timeout goes away only by firing
\* or by a start(), addMessage() or end().
C15_SingleShotWatchdog ==
    /\ [](/\ Cardinality(timeouts) <= 1
          /\ cmConfig.silenceTimeoutMs = 0 =>
                timeouts = {} /\ EventsOf(cmEvents, "silenceTimeout") = <<>>)
    /\ [][/\ cmCall'.op = "silenceTimer" =>
                /\ timeouts = {silenceTimer}
                /\ timeouts' = {}
                /\ cmEvents' = <<Ev("silenceTimeout", state)>>
          /\ cmCall'.op # "silenceTimer" =>
                EventsOf(cmEvents', "silenceTimeout") = <<>>
          /\ timeouts # {} /\ timeouts' # timeouts =>
                cmCall'.op \in TimerCalls \cup {"silenceTimer"}]_vars

\* C15 witness: the timeout armed by the second message of a conversation has
\* fired
C15_Witness ==
    /\ cmCall.op = "silenceTimer"
    /\ Len(state.messages) = 2
    /\ silenceTimer # NoTimer
    /\ timeouts = {}

\* C16: after end(), and until the next start(), no 'silenceTimeout' event is
\* emitted, whether or not the timeout was due when end() was called.
C16_NoTimeoutAfterEnd ==
    [][cmEnded =>
         /\ cmCall'.op # "silenceTimer"
         /\ EventsOf(cmEvents', "silenceTimeout") = <<>>]_vars

\* C16 witness: end() cancelled a timeout that was due and had not fired, and
\* time has passed since
C16_Witness ==
    /\ cmEnded
    /\ cancelled
    /\ cmCall.op = "tick"
    /\ timeouts = {}

-----------------------------------------------------------------------------
(* ConversationManager: the state objects and the accessors *)

\* the isActive flags of all ConversationState objects the manager has created
ActiveObjects ==
    {i \in 1..Len(retired) : retired[i].isActive}
        \cup (IF state.isActive THEN {Len(retired) + 1} ELSE {})

\* C11: among all ConversationState objects the manager has created, at most
\* one has isActive = true, in every reachable state.
C11_AtMostOneActiveState ==
    Cardinality(ActiveObjects) <= 1

\* the operations of the manager that C12 names, start() apart
AfterEndCalls == {"addMessage", "addTranscript", "clear", "updateMetadata"}

\* C12: once end() has returned a state object, no later operation on the
\* manager changes that object's messages or metadata.  Until the next
\* start() the object is this.state; start() binds this.state to a new
\* object and the manager keeps no reference to the old one.
C12_EndedStateNotChanged ==
    [][cmEnded /\ cmCall'.op \in AfterEndCalls =>
         /\ state'.messages = state.messages
         /\ state'.metadata = state.metadata]_vars

\* the changes a caller makes to values the accessors returned
CallerMutations ==
    {"getState().messages.push", "getState().metadata[]=", "getState().isActive=",
     "getMessages().push", "getLastMessages().push"}

\* C13: no change a caller makes to a value returned by getMessages(),
\* getLastMessages(n) or getState() changes what the accessors return later.
C13_AccessorsReturnCopies ==
    [][cmCall'.op \in CallerMutations =>
         /\ ConversationManager_getState(Manager)' = ConversationManager_getState(Manager)
         /\ ConversationManager_getMessages(Manager)' = ConversationManager_getMessages(Manager)
         /\ \A n \in 0..MaxAdds :
               ConversationManager_getLastMessages(Manager, n)'
                 = ConversationManager_getLastMessages(Manager, n)]_vars

\* C19: getLastMessages(n) returns exactly the last min(n, len) messages of
\* the history, in order, for every n >= 0.
C19_LastMessagesAreLastN ==
    \A n \in 0..(MaxAdds + 1) :
        ConversationManager_getLastMessages(Manager, n) = LastN(state.messages, n)

-----------------------------------------------------------------------------
(* VoxAgent: the silence timeout *)

\* the step is the silence timer's callback with the agent's listener
SilenceTimeoutStep == cmCall'.op = "silenceTimer" /\ agCall'.op = "silenceTimeout"

C18_SilenceEndsConversation ==
    [][SilenceTimeoutStep => ~state'.isActive]_vars

-----------------------------------------------------------------------------
(* LeadExtractor: properties *)

\* C20: processMessage with a message whose role is not 'user' returns null,
\* emits no 'lead' event and leaves the accumulated lead fields unchanged.
C20_NonUserMessageIgnored ==
    [][leCall'.op = "processMessage" /\ leCall'.role # "user" =>
         /\ leRet' = NullLead
         /\ EventsOf(leEvents', "lead") = <<>>
         /\ currentLead' = currentLead]_vars

\* C20 witness: an assistant message that holds an address was passed to an
\* extractor that had found a name, and the lead has the name only
C20_Witness ==
    /\ leCall = LeCall("processMessage", Message("assistant", "bob@y.org"))
    /\ currentLead = [EmptyLead EXCEPT !.name = "Ann"]

\* C21: accumulation is monotone: a processMessage call never makes a
\* populated field (name, email, phone, company, notes) empty, and a field
\* it changes takes a value that the message's updates supply.
C21_AccumulationMonotone ==
    [][leCall'.op = "processMessage" =>
         \A f \in Fields :
            /\ populated(currentLead, f) => populated(currentLead', f)
            /\ currentLead'[f] # currentLead[f] => populated(currentLead', f)]_vars

\* C22: processMessage on a user message emits a 'lead' event and returns a
\* lead if and only if, after the merge, one of name, email and phone is
\* populated and extractOnEveryMessage is true; the payload, which is also
\* the value returned, holds every accumulated field.
C22_EmissionIffMinimumInfo ==
    [][leCall'.op = "processMessage" /\ leCall'.role = "user" =>
         LET due == /\ \E f \in {"name", "email", "phone"} : populated(currentLead', f)
                    /\ leadConfig.extractOnEveryMessage
             leads == EventsOf(leEvents', "lead")
         IN  /\ leRet'.kind = "lead" <=> due
             /\ leads # <<>> <=> due
             /\ due => /\ leads = <<Ev("lead", leRet'.lead)>>
                        /\ \A f \in Fields : leRet'.lead[f] = currentLead'[f]]_vars

\* C22 witness: a message that names only the company was processed after
\* the name and an address were found, and the lead emitted holds all three
C22_Witness ==
    /\ leCall = LeCall("processMessage", Message("user", "i work at Acme"))
    /\ leRet.kind = "lead"
    /\ leEvents = <<Ev("lead", leRet.lead)>>
    /\ leRet.lead.name = "Ann"
    /\ leRet.lead.email = "ann@x.io"
    /\ leRet.lead.company = "Acme"

\* an extractor as constructed
FreshExtractor == [currentLead |-> EmptyLead, emailLastIndex |-> 0]

\* C23: processConversation(state) depends only on state.messages: whatever
\* processMessage calls came before, it returns the snapshot and leaves the
\* accumulated fields that a newly constructed extractor with the same
\* configuration returns and leaves for the same history.
C23_ConversationResultFromHistoryOnly ==
    [][leCall'.op = "processConversation" =>
         LET r == LeadExtractor_processConversation(FreshExtractor, leadConfig,
                                                    leCall'.messages)
         IN  /\ leRet' = r.ret
             /\ currentLead' = r.le.currentLead]_vars

\* C23 witness: processConversation ran on a history without a user message
\* in an extractor that had validated an accumulated address before (the
\* pattern's lastIndex is still behind it), and no field is left
C23_Witness ==
    /\ leCall = LeConversationCall(<<Message("assistant", "bob@y.org")>>)
    /\ emailLastIndex = StrLen("ann@x.io")
    /\ currentLead = EmptyLead
    /\ leRet = NullLead

\* C24: every snapshot whose email matches the email pattern reports the
\* confidence 1.0 for it: the value a call returned and the payload of every
\* 'lead' event it emitted, however many snapshots were built before.
C24_ValidEmailHasFullConfidence ==
    LET full(lead) == matchEmail(lead.email) # <<>> => lead.confidence.email = 100
    IN  /\ leRet.kind = "lead" => full(leRet.lead)
        /\ \A i \in DOMAIN leEvents : full(leEvents[i].data)

\* the written forms of the US number 415 555 1234: bare, with separators or
\* parentheses, with a leading 1, with a leading +1
USForms == PhoneTexts \ {"+4155551234"}

\* the phone matched in the user message of a processMessage step
PhoneStep == /\ leCall'.op = "processMessage"
             /\ leCall'.role = "user"
             /\ matchPhone(leCall'.content) # <<>>

\* C25: a matched phone with 10 digits becomes '+1' followed by those
\* digits, one with 11 digits that start with '1' becomes '+' followed by
\* those digits, anything else is passed through; so every written form of
\* one US number yields '+1' followed by its ten digits.
C25_NormalizedByDigitCount ==
    [][PhoneStep =>
         LET matched == matchPhone(leCall'.content)[1]
             digits  == keepDigits(matched)
         IN  /\ Len(digits) = 10 => currentLead'.phone = <<"+", "1">> \o digits
             /\ Len(digits) = 11 /\ digits[1] = "1" =>
                    currentLead'.phone = <<"+">> \o digits
             /\ Len(digits) \notin {10, 11} => currentLead'.phone = matched
             /\ leCall'.content \in USForms =>
                    currentLead'.phone = <<"+", "1">> \o Ten]_vars

\* C25, amended: the lengths are those of the match stripped of everything
\* but digits and '+': 10 characters get '+1' in front, 11 characters that
\* start with '1' get '+' in front, anything else (a match that starts with
\* '+') is passed through stripped. Every written form of one US number
\* yields '+1' followed by its ten digits; '+' followed by ten digits stays
\* as it is.
C25_NormalizedByStrippedLength ==
    [][PhoneStep =>
         LET matched  == matchPhone(leCall'.content)[1]
             stripped == keepDigitsAndPlus(matched)
         IN  /\ Len(stripped) = 10 => currentLead'.phone = <<"+", "1">> \o stripped
             /\ Len(stripped) = 11 /\ stripped[1] = "1" =>
                    currentLead'.phone = <<"+">> \o stripped
             /\ Len(stripped) > 11 \/ stripped[1] = "+" => currentLead'.phone = stripped
             /\ leCall'.content \in USForms =>
                    currentLead'.phone = <<"+", "1">> \o Ten
             /\ leCall'.content = "+4155551234" =>
                    currentLead'.phone = <<"+">> \o Ten]_vars

\* C25 witness: a number written with +1, parentheses, a blank and a dash
\* was processed and is stored as +14155551234
C25_Witness ==
    /\ leCall = LeCall("processMessage", Message("user", "+1 (415) 555-1234"))
    /\ currentLead.phone = <<"+", "1", "4", "1", "5", "5", "5", "5", "1", "2", "3", "4">>

-----------------------------------------------------------------------------
(* VoxAgent: connect, reconnect and sendText properties *)

\* C26: when the provider's initialize() or connect() fails in a connect()
\* call while isConnected is false, connect() rejects, 'error' is emitted once
\* with the context 'connect', no reconnect is scheduled, isConnected stays
\* false and no conversation is started.
C26_InitialConnectFailure ==
    [][connecting' < connecting /\ agCall' # AgCall("connect", "resolved") /\ ~isConnected =>
         /\ agCall' = AgCall("connect", "rejected")
         /\ agEvents' = <<Ev("error", "connect")>>
         /\ reconnectTimers' = reconnectTimers
         /\ reconnectAttempts' = reconnectAttempts
         /\ ~isConnected'
         /\ state' = state
         /\ cmStarted' = cmStarted
         /\ EventsOf(cmEvents', "started") = <<>>]_vars

\* C26 witness: the first connect() of an agent was rejected
C26_Witness ==
    /\ agCall = AgCall("connect", "rejected")
    /\ agEvents = <<Ev("error", "connect")>>
    /\ ~isConnected
    /\ ~cmStarted
    /\ reconnectTimers = <<>>
    /\ connecting = 0

\* C27: between two successful connects at most maxReconnectAttempts
\* reconnects are scheduled, whatever the order of errors, failed connects
\* and reconnect timeouts; once that many have been scheduled, a step
\* without a successful connect sets no further timeout.
C27_ReconnectCeiling ==
    /\ [](scheduled <= maxReconnectAttempts)
    /\ [][scheduled = maxReconnectAttempts /\ agCall' # AgCall("connect", "resolved") =>
             /\ scheduled' = scheduled
             /\ Len(reconnectTimers') <= Len(reconnectTimers)]_vars

\* C27 witness: the fifth reconnect since the last successful connect has
\* failed, and its error has set no timeout
C27_Witness ==
    /\ agCall = AgCall("connect", "rejected")
    /\ isConnected
    /\ scheduled = maxReconnectAttempts
    /\ reconnectTimers = <<>>
    /\ connecting = 0

\* the step in which a reconnect timeout fires that was set before a
\* disconnect() that has resolved since
TornTimerFires ==
    /\ agCall'.op = "reconnectTimer"
    /\ \E i \in DOMAIN reconnectTimers :
          /\ reconnectTimers[i].torn
          /\ reconnectTimers' = SubSeq(reconnectTimers, 1, i - 1)
                                   \o SubSeq(reconnectTimers, i + 1, Len(reconnectTimers))

\* C28: a reconnect timeout set before disconnect() (or stop()) completed
\* does nothing when it fires afterwards: no call of the provider's
\* initialize or connect, isConnected and the conversation stay as they are.
C28_TornDownTimerDoesNothing ==
    [][TornTimerFires =>
         /\ agTrace' = <<>>
         /\ connecting' = connecting
         /\ isConnected' = isConnected
         /\ state' = state]_vars

C30_SendTextNeedsConnection ==
    [][agCall'.op = "sendText" =>
         IF ~isConnected
         THEN /\ agCall'.outcome = "rejected"
              /\ state' = state
              /\ \A i \in DOMAIN agTrace' : agTrace'[i].call # "provider.sendText"
         ELSE \E text \in SendTexts :
                 /\ state'.messages = Append(state.messages, Message("user", text))
                 /\ agTrace'[1] = Call("conversationManager.addMessage", text)
                 /\ agTrace'[Len(agTrace')] = Call("provider.sendText", text)]_vars

\* C30 witness: sendText was rejected after a disconnect(), and the history
\* still ends with the message sent while connected
C30_Witness ==
    /\ agCall = AgCall("sendText", "rejected")
    /\ agTrace = <<>>
    /\ ~isConnected
    /\ cmEnded
    /\ state.messages = <<Message("user", "a")>>

-----------------------------------------------------------------------------
(* VoxAgent: disconnect(), plugins, transcripts, clients: properties *)

\* where in a trace the callee c is called
CallsOf(trace, c) == {i \in DOMAIN trace : trace[i].call = c}

\* where in a trace a lead is announced: 'lead' emitted, or the
\* configuration's onLead called
LeadAnnounced(trace) ==
    {i \in DOMAIN trace : trace[i] \in {Call("emit", "lead"), Call("config.onLead", "")}}

\* C31: in every disconnect() the final extraction over the whole history runs
\* first and every lead it yields is announced before provider.disconnect() is
\* called, which is called before the conversation is ended; when the call
\* resolves isConnected is false and the conversation inactive; when the
\* provider's disconnect() fails the call rejects and the conversation is
\* left as it was.
C31_DisconnectOrdering ==
    [][agCall'.op = "disconnect" =>
         /\ agTrace'[1] = Call("leadExtractor.processConversation", "")
         /\ leCall' = LeConversationCall(state.messages)
         /\ leRet'.kind = "lead" => LeadAnnounced(agTrace') # {}
         /\ \A i \in LeadAnnounced(agTrace'), j \in CallsOf(agTrace', "provider.disconnect") :
               i < j
         /\ \A i \in LeadAnnounced(agTrace'), j \in CallsOf(agTrace', "conversationManager.end") :
               i < j
         /\ \A i \in CallsOf(agTrace', "provider.disconnect"),
               j \in CallsOf(agTrace', "conversationManager.end") : i < j
         /\ CallsOf(agTrace', "provider.disconnect") # {}
         /\ agCall'.outcome = "resolved" =>
               /\ ~isConnected'
               /\ ~state'.isActive
               /\ CallsOf(agTrace', "conversationManager.end") # {}
         /\ agCall'.outcome # "resolved" =>
               /\ agCall'.outcome = "rejected"
               /\ state' = state
               /\ CallsOf(agTrace', "conversationManager.end") = {}]_vars

\* a disconnect() has resolved whose final extraction yielded a lead
C31_Witness ==
    /\ agCall = AgCall("disconnect", "resolved")
    /\ leRet.kind = "lead"
    /\ LeadAnnounced(agTrace) # {}
    /\ ~state.isActive

\* what plugin i was told through a hook in a trace, in order
Told(trace, i, hook) ==
    LET calls == SelectSeq(trace, LAMBDA e : e.plugin = i /\ e.call = hook)
    IN  [k \in DOMAIN calls |-> calls[k].arg]

\* the k-th smallest of a set of indices
Nth(S, k) == CHOOSE x \in S : Cardinality({y \in S : y < x}) = k - 1

\* where a trace calls the manager's addMessage or addTranscript, where it
\* calls the provider, and whether it calls the extractor
Appends(trace) ==
    CallsOf(trace, "conversationManager.addMessage")
        \cup CallsOf(trace, "conversationManager.addTranscript")
ProviderCalls(trace) ==
    {j \in DOMAIN trace : trace[j].call \in {"provider.sendText", "provider.disconnect",
                                             "provider.connect", "provider.initialize"}}
ExtractorCalled(trace) ==
    CallsOf(trace, "leadExtractor.processMessage")
        \cup CallsOf(trace, "leadExtractor.processConversation") # {}

\* the contents of the messages the manager appended in the step that ends
\* in a state with trace and events ev, in order
AppendedIn(trace, ev) ==
    IF Appends(trace) = {} THEN <<>>
    ELSE LET msgs == EventsOf(ev, "message")
         IN  [k \in DOMAIN msgs |-> msgs[k].data.content]

C33_PluginsGetTranscripts ==
    [][agCall'.op = "onTranscript" =>
         \A i \in DOMAIN plugins :
            defines(plugins[i], "onTranscript") =>
               Told(agTrace', i, "onTranscript") = <<cmCall'.content>>]_vars

\* C34: when a client disconnects, the final extraction runs over the
\* messages of the conversation that was started for that client.
C34_FinalPassOverOwnConversation ==
    [][agCall'.op = "clientDisconnect" =>
         \E c \in clients :
            /\ c.id = agEvents'[1].data
            /\ leCall' = LeConversationCall(c.messages)]_vars

-----------------------------------------------------------------------------
(* AudioPipeline: conservation of the accepted bytes *)

\* the bytes the 'buffer' events of a log carry, in order
Payloads(ev) ==
    LET buffers == EventsOf(ev, "buffer")
    IN  Combine([k \in DOMAIN buffers |-> buffers[k].data])

\* the bytes a step accepts: the chunk of a processAudioChunk call on a
\* streaming pipeline
AcceptedIn == IF apCall'.op = "processAudioChunk" /\ isStreaming THEN apCall'.arg ELSE <<>>

\* a step neither loses nor duplicates a byte: what was buffered before it,
\* followed by what it accepts, is what it delivers in 'buffer' events followed
\* by what is buffered after it
Conserved ==
    Combine(audioBuffer) \o AcceptedIn = Payloads(apEvents') \o Combine(audioBuffer')

\* C35 as stated: every call conserves the accepted bytes, start() on a
\* pipeline with buffered data included, and a pipeline that is not streaming
\* holds no undelivered byte; so that once the pipeline is stopped the 'buffer'
\* payloads, concatenated, are the accepted chunks, concatenated.
C35_AcceptedBytesConserved ==
    /\ [](~isStreaming => audioBuffer = <<>>)
    /\ [][Conserved]_vars

\* C35 as amended: every call but start() conserves the accepted bytes;
\* start() delivers nothing and empties the buffer (the bytes buffered when it
\* is called are discarded); a pipeline that is not streaming holds no
\* undelivered byte.
C35_ConservedExceptAcrossStart ==
    /\ [](~isStreaming => audioBuffer = <<>>)
    /\ [][apCall'.op # "start" => Conserved]_vars
    /\ [][apCall'.op = "start" => Payloads(apEvents') = <<>> /\ audioBuffer' = <<>>]_vars

\* stop() has delivered three bytes that took two chunks
C35_Witness ==
    /\ apCall.op = "stop"
    /\ ~isStreaming
    /\ Payloads(apEvents) = <<2, 255, 2>>
    /\ audioBuffer = <<>>

\* how often a trace makes a call
Times(trace, c) == Cardinality({i \in DOMAIN trace : trace[i] = c})

\* C36: a sendText() whose user message yields a lead calls the
\* configuration's onLead once and emits 'lead' once, as often as it calls
\* the onLead hook of each plugin that defines one; a disconnect() whose
\* final extraction yields a lead calls the configuration's onLead once and
\* emits 'lead' once, and not at all when it yields none.
C36_LeadAnnouncedOnce ==
    [][/\ (agCall'.op = "sendText" /\ ExtractorCalled(agTrace') /\ leRet'.kind = "lead") =>
              /\ Times(agTrace', Call("config.onLead", "")) = 1
              /\ Times(agTrace', Call("emit", "lead")) = 1
              /\ \A i \in DOMAIN plugins :
                    defines(plugins[i], "onLead") =>
                       Len(Told(agTrace', i, "onLead"))
                           = Times(agTrace', Call("config.onLead", ""))
       /\ agCall'.op = "disconnect" =>
              /\ Times(agTrace', Call("config.onLead", ""))
                    = (IF leRet'.kind = "lead" THEN 1 ELSE 0)
              /\ Times(agTrace', Call("emit", "lead"))
                    = (IF leRet'.kind = "lead" THEN 1 ELSE 0)]_vars

\* C37: the connect() of a reconnect timeout, the only connect() pending,
\* resolves and leaves the conversation as it was: same id, same messages.
C37_ReconnectKeepsConversation ==
    [][(/\ agCall.op = "reconnectTimer"
        /\ connecting = 1
        /\ agCall' = AgCall("connect", "resolved")) =>
           /\ state'.id = state.id
           /\ state'.messages = state.messages]_vars

\* C38: sendText(text) on a connected agent leaves the history as it was
\* with one user message of that text appended, whichever provider the agent
\* is configured with.
C38_SentTextStoredOnce ==
    [][(agCall'.op = "sendText" /\ isConnected) =>
           state'.messages = Append(state.messages, Message("user", cmCall'.content))]_vars

\* C39: the agent's public conversation shows what the manager's getState()
\* returns: the same isActive flag and the same messages, in every state.
C39_ConversationTracksManager ==
    /\ conversation.isActive = state.isActive
    /\ conversation.messages = state.messages

-----------------------------------------------------------------------------
(* VoxKitWSServer: properties *)

\* C40: options.onDisconnect is called once with the client of every
\* connection that has ended or is being closed, however it ends, and not
\* with the client of a connection that is open.
C40_OnDisconnectOnce ==
    \A id \in DOMAIN sockets :
        disconnected[id] = (IF sockets[id] = "OPEN" THEN 0 ELSE 1)

=============================================================================
